---- MODULE Spec2Model ----
(***************************************************************************)
(* A model of the mock result-page generators of aio_pages:                *)
(*   generate_serp_html.py, generate_aio_as_serp_html.py,                  *)
(*   generate_aio_html.py and format_text.py.                              *)
(*                                                                         *)
(* Text is modelled character by character: a string is a sequence of      *)
(* one-character strings, so that str.replace, str.strip, slicing and the  *)
(* regular expressions of the source are computed as Python computes them. *)
(***************************************************************************)
EXTENDS Integers, Sequences, FiniteSets, TLC

VARIABLES
    pc,        \* position of the run, or of the function under check
    arg,       \* the argument(s) of the function under check
    ret,       \* its result
    resp,      \* the text-generation collaborator's response in flight
    heap,      \* the nodes of the parsed documents: node id -> node
    soup,      \* the id of the root of the document being rendered (0: none)
    env,       \* what a run is started on: the generator, the template, the records
    main,      \* main's loop: the records taken so far and the rendered count
    files,     \* the output files written: the ids of their records
    loc,       \* the locals of the render function at work
    err        \* the error that ended the run

docVars == <<heap, soup>>
fmtVars == <<resp>>
runVars == <<env, main, files, loc, err>>
vars == <<pc, arg, ret, resp, heap, soup, env, main, files, loc, err>>


None == "None"

\* None where a str is expected, and the float NaN pandas gives an empty cell
NoString == <<"#None">>
NaN == <<"#NaN">>

\* no run of a generator is under way
NoRun ==
    /\ env = None
    /\ main = None
    /\ files = {}
    /\ loc = None
    /\ err = None

(***************************************************************************)
(* Characters and the str methods the source uses.                         *)
(***************************************************************************)
UpperLetters ==
    <<"A","B","C","D","E","F","G","H","I","J","K","L","M",
      "N","O","P","Q","R","S","T","U","V","W","X","Y","Z">>

LowerLetters ==
    <<"a","b","c","d","e","f","g","h","i","j","k","l","m",
      "n","o","p","q","r","s","t","u","v","w","x","y","z">>

Digits == {"0","1","2","3","4","5","6","7","8","9"}

\* str.isspace for the characters of the model: what str.split(), str.strip()
\* and the regular expression class \s treat as white space.
Whitespace == {" ", "\n", "\t", "\r"}

\* The regular expression class \w.
IsWordChar(c) ==
    \/ \E i \in 1..26 : c = UpperLetters[i] \/ c = LowerLetters[i]
    \/ c \in Digits
    \/ c = "_"

\* str.lower on one character.
LowerChar(c) ==
    IF \E i \in 1..26 : c = UpperLetters[i]
    THEN LowerLetters[CHOOSE i \in 1..26 : c = UpperLetters[i]]
    ELSE c

\* str.lower
Lower(s) == [i \in 1..Len(s) |-> LowerChar(s[i])]

\* s[i:] starts with p (i is 1-based)
OccursAt(s, i, p) ==
    /\ i + Len(p) - 1 <= Len(s)
    /\ \A k \in 1..Len(p) : s[i + k - 1] = p[k]

\* p in s
Contains(s, p) == \E i \in 1..(Len(s) + 1) : OccursAt(s, i, p)

\* str.startswith, str.endswith
StartsWith(s, p) == OccursAt(s, 1, p)
EndsWith(s, p) == Len(p) <= Len(s) /\ OccursAt(s, Len(s) - Len(p) + 1, p)

\* s[a:b] with 0 <= a, in Python's 0-based half-open indexing
Slice(s, a, b) ==
    LET hi == IF b > Len(s) THEN Len(s) ELSE b
    IN  IF hi <= a THEN <<>> ELSE SubSeq(s, a + 1, hi)

\* str.replace(old, new) for a non-empty old: leftmost, non-overlapping
RECURSIVE ReplaceFrom(_, _, _, _)
ReplaceFrom(s, i, old, new) ==
    IF i > Len(s) THEN <<>>
    ELSE IF OccursAt(s, i, old)
         THEN new \o ReplaceFrom(s, i + Len(old), old, new)
         ELSE <<s[i]>> \o ReplaceFrom(s, i + 1, old, new)

Replace(s, old, new) == ReplaceFrom(s, 1, old, new)

\* str.lstrip(), str.rstrip(), str.strip() with no argument
RECURSIVE LStrip(_)
LStrip(s) ==
    IF s # <<>> /\ Head(s) \in Whitespace THEN LStrip(Tail(s)) ELSE s

RECURSIVE RStrip(_)
RStrip(s) ==
    IF s # <<>> /\ s[Len(s)] \in Whitespace
    THEN RStrip(SubSeq(s, 1, Len(s) - 1))
    ELSE s

Strip(s) == LStrip(RStrip(s))

\* str.rstrip(chars), str.strip(chars)
RECURSIVE RStripChars(_, _)
RStripChars(s, cs) ==
    IF s # <<>> /\ s[Len(s)] \in cs
    THEN RStripChars(SubSeq(s, 1, Len(s) - 1), cs)
    ELSE s

RECURSIVE LStripChars(_, _)
LStripChars(s, cs) ==
    IF s # <<>> /\ Head(s) \in cs THEN LStripChars(Tail(s), cs) ELSE s

StripChars(s, cs) == LStripChars(RStripChars(s, cs), cs)

\* the concatenation of a sequence of strings
RECURSIVE Concat(_)
Concat(ss) == IF ss = <<>> THEN <<>> ELSE Head(ss) \o Concat(Tail(ss))

\* sep.join(ss)
RECURSIVE Join(_, _)
Join(sep, ss) ==
    IF ss = <<>> THEN <<>>
    ELSE IF Len(ss) = 1 THEN ss[1]
    ELSE ss[1] \o sep \o Join(sep, Tail(ss))

\* all sequences over S of length at most n
SeqsUpTo(S, n) == UNION {[1..k -> S] : k \in 0..n}

(***************************************************************************)
(* The Document: a heap of nodes.  A node id is a position of heap; 0 is   *)
(* Python's None.  An element has a tag, an id attribute, its class        *)
(* tokens, its other attributes (name -> value) and its children in order; *)
(* a NavigableString is a node of tag "#text" that holds its text.         *)
(* BeautifulSoup(raw, "lxml") is modelled by Build, which allocates the    *)
(* nodes of a markup tree in document order.                               *)
(***************************************************************************)
NoAttrs == [a \in {} |-> <<>>]

\* markup: an element and a text
E(tag, idattr, cls, attrs, kids) ==
    [tag |-> tag, idattr |-> idattr, cls |-> cls, attrs |-> attrs,
     kids |-> kids, text |-> <<>>]

T(text) ==
    [tag |-> "#text", idattr |-> <<>>, cls |-> {}, attrs |-> NoAttrs,
     kids |-> <<>>, text |-> text]

RECURSIVE Build(_, _)
RECURSIVE BuildKids(_, _)
\* parse markup t into heap h: [h |-> the new heap, id |-> the node of t]
\* (each node is allocated before the next one is looked at)
Build(h, t) ==
    LET me == Len(h) + 1
        r == BuildKids(Append(h, [t EXCEPT !.kids = <<>>]), t.kids)
    IN  [h |-> [r.h EXCEPT ![me].kids = r.ids], id |-> me]

BuildKids(h, ts) ==
    IF ts = <<>> THEN [h |-> h, ids |-> <<>>]
    ELSE LET a == Build(h, Head(ts))
         IN  IF a.id > 0
             THEN LET b == BuildKids(a.h, Tail(ts))
                  IN  [h |-> b.h, ids |-> <<a.id>> \o b.ids]
             ELSE a

IsTag(h, n) == h[n].tag # "#text"

\* Tag.descendants: every node below n, in document order (n itself excluded)
RECURSIVE DescOfKids(_, _)
DescOfKids(h, ks) ==
    IF ks = <<>> THEN <<>>
    ELSE <<Head(ks)>> \o DescOfKids(h, h[Head(ks)].kids) \o DescOfKids(h, Tail(ks))

Descendants(h, n) == DescOfKids(h, h[n].kids)

SeqToSet(s) == {s[i] : i \in 1..Len(s)}

\* a function on 1..n as the sequence it is
AsSeq(f) == SubSeq(f, 1, Len(f))

\* the nodes of the subtree of n, n included
Subtree(h, n) == {n} \cup SeqToSet(Descendants(h, n))

\* Tag.parent (0 for a detached node)
ParentOf(h, n) ==
    IF \E p \in 1..Len(h) : n \in SeqToSet(h[p].kids)
    THEN CHOOSE p \in 1..Len(h) : n \in SeqToSet(h[p].kids)
    ELSE 0

\* the proper ancestors of n
RECURSIVE Ancestors(_, _)
Ancestors(h, n) ==
    LET p == ParentOf(h, n)
    IN  IF p = 0 THEN {} ELSE {p} \cup Ancestors(h, p)

\* the first node of a sequence, or None
First(s) == IF s = <<>> THEN 0 ELSE s[1]

\* Tag.find_all(name): the descendant elements of that tag ("*" is find_all(True))
find_all(h, n, tag) ==
    LET Hit(x) == IsTag(h, x) /\ (tag = "*" \/ h[x].tag = tag)
    IN  SelectSeq(Descendants(h, n), Hit)

\* Tag.find_all(name, class_=c) and select("name.c")
find_all_class(h, n, tag, c) ==
    LET Hit(x) == h[x].tag = tag /\ c \in h[x].cls
    IN  SelectSeq(Descendants(h, n), Hit)

\* Tag.find(name, class_=c), select_one("name.c")
find_class(h, n, tag, c) == First(find_all_class(h, n, tag, c))

\* Tag.find(name, id=i), select_one("name#i")
find_id(h, n, tag, i) ==
    LET Hit(x) == h[x].tag = tag /\ h[x].idattr = i
    IN  First(SelectSeq(Descendants(h, n), Hit))

\* Tag.find(name)
find(h, n, tag) == First(find_all(h, n, tag))

\* select_one("ptag.pcls tag"): the first descendant element <tag> of n that has
\* an ancestor <ptag class=pcls> (the descendant combinator)
select_one_in(h, n, ptag, pcls, tag) ==
    LET Hit(x) ==
            /\ h[x].tag = tag
            /\ \E p \in Ancestors(h, x) : h[p].tag = ptag /\ pcls \in h[p].cls
    IN  First(SelectSeq(Descendants(h, n), Hit))

\* Tag.has_attr, del tag[a], tag[a] = v, tag.get(a, "")
has_attr(h, n, a) == a \in DOMAIN h[n].attrs

DelAttr(h, n, a) ==
    [h EXCEPT ![n].attrs = [x \in (DOMAIN h[n].attrs) \ {a} |-> h[n].attrs[x]]]

SetAttr(h, n, a, v) ==
    [h EXCEPT ![n].attrs =
        [x \in (DOMAIN h[n].attrs) \cup {a} |-> IF x = a THEN v ELSE h[n].attrs[x]]]

GetAttr(h, n, a, default) == IF has_attr(h, n, a) THEN h[n].attrs[a] ELSE default

\* the children stay where they are
KeepChildren(h, n) == h

\* Tag.clear(): the children are extracted (they stay alive while referenced)
Clear(h, n) == [h EXCEPT ![n].kids = <<>>]

\* the node put in front of the children
PrependChild(h, n, c) == [h EXCEPT ![n].kids = <<c>> \o @]

\* Tag.append(node)
AppendChild(h, n, c) == [h EXCEPT ![n].kids = Append(@, c)]

\* Tag.append(str) and tag.string = str after a clear(): a new NavigableString
AppendText(h, n, text) ==
    [Append(h, T(text)) EXCEPT ![n].kids = Append(@, Len(h) + 1)]

\* tag.clear(); tag.append(text)
SetText(h, n, text) == AppendText(Clear(h, n), n, text)

\* Tag.string: the text of the only child, looked for through single children
RECURSIVE StringOf(_, _)
StringOf(h, n) ==
    IF ~IsTag(h, n) THEN h[n].text
    ELSE IF Len(h[n].kids) = 1 THEN StringOf(h, h[n].kids[1])
    ELSE NoString

\* the markup of the subtree of n (what str(node) serializes): ids forgotten
RECURSIVE Markup(_, _)
Markup(h, n) ==
    [h[n] EXCEPT !.kids = [i \in 1..Len(h[n].kids) |-> Markup(h, h[n].kids[i])]]

\* copy.deepcopy(node), copy.copy(node): a fresh, detached copy of the subtree
deepcopy(h, n) == Build(h, Markup(h, n))

(***************************************************************************)
(* The Path Rewriter.                                                      *)
(***************************************************************************)
ASSET_FOLDER_NAME ==
    <<"h","t","m","l","_","a","s","s","e","t","_","f","i","l","e","s">>

S_files == <<"_","f","i","l","e","s","/">>
S_serp_files == <<"s","e","r","p","_","f","i","l","e","s","/">>
S_file_scheme == <<"f","i","l","e",":","/","/","/">>

\* re.sub(r'(?i)\bfile:///', "", html): \b before the f is a word boundary, so the
\* character before the match is not a word character; (?i) ignores case.
RECURSIVE StripFileScheme(_, _)
StripFileScheme(s, i) ==
    IF i > Len(s) THEN <<>>
    ELSE IF /\ OccursAt(Lower(s), i, S_file_scheme)
            /\ (i = 1 \/ ~IsWordChar(s[i - 1]))
         THEN StripFileScheme(s, i + Len(S_file_scheme))
         ELSE <<s[i]>> \o StripFileScheme(s, i + 1)

\* generate_serp_html.fix_asset_paths and generate_aio_as_serp_html.fix_asset_paths
fix_asset_paths(html) ==
    LET h1 == Replace(html, S_files, ASSET_FOLDER_NAME \o <<"/">>)
        h2 == Replace(h1, S_serp_files, ASSET_FOLDER_NAME \o <<"/">>)
    IN  StripFileScheme(h2, 1)

\* generate_aio_html._fix_asset_paths
_fix_asset_paths(raw_html) ==
    StripFileScheme(Replace(raw_html, S_files, ASSET_FOLDER_NAME \o <<"/">>), 1)

\* The template texts the Path Rewriter is run on: up to MaxPathPieces pieces.
MaxPathPieces == 3

PathPieces ==
    { <<"x","/">>,
      <<"f","o","o","_","f","i","l","e","s","/">>,
      S_serp_files,
      <<"b","a","r",".","p","n","g">>,
      S_file_scheme,
      <<"F","I","L","E",":","/","/","/">>,
      <<"a">>,
      <<" ">> }

PathInputs == { Concat(ps) : ps \in SeqsUpTo(PathPieces, MaxPathPieces) }

PathsInit ==
    /\ pc = "paths"
    /\ arg \in [html : PathInputs, which : {"serp", "aio"}]
    /\ ret = None
    /\ heap = <<>>
    /\ soup = 0
    /\ resp = None
    /\ NoRun

\* render_serp: raw = fix_asset_paths(raw)
FixAssetPaths ==
    /\ pc = "paths"
    /\ arg.which = "serp"
    /\ ret' = fix_asset_paths(arg.html)
    /\ pc' = "paths_done"
    /\ UNCHANGED <<arg, docVars, fmtVars, runVars>>

\* render_one: raw_html = _fix_asset_paths(raw_html)
FixAssetPathsAio ==
    /\ pc = "paths"
    /\ arg.which = "aio"
    /\ ret' = _fix_asset_paths(arg.html)
    /\ pc' = "paths_done"
    /\ UNCHANGED <<arg, docVars, fmtVars, runVars>>

PathsNext == FixAssetPaths \/ FixAssetPathsAio

SpecPaths == PathsInit /\ [][PathsNext]_vars

S_ref_in == <<"/","f","o","o","_","f","i","l","e","s","/","b","a","r",".","p","n","g">>
S_ref_out == <<"/">> \o ASSET_FOLDER_NAME \o <<"/","b","a","r",".","p","n","g">>

\* C5: a reference <dir>/foo_files/bar.png becomes <dir>/html_asset_files/bar.png
\* (the whole segment foo_files/ replaced, bar.png unchanged) and no file:///
\* remains in the rewritten template.
C5_PathRewrite ==
    (pc = "paths_done" /\ Contains(arg.html, S_ref_in))
        => /\ Contains(ret, S_ref_out)
           /\ ~Contains(Lower(ret), S_file_scheme)

(***************************************************************************)
(* The query: format_query / _format_query_from_row and set_search_query / *)
(* _replace_search_bar_query.                                              *)
(***************************************************************************)
S_COUNTYSEAT == <<"C","O","U","N","T","Y","S","E","A","T">>
S_STATE == <<"S","T","A","T","E">>
S_nan == <<"n","a","n">>
S_APjFqb == <<"A","P","j","F","q","b">>
S_GoogleSearch ==
    <<" ","-"," ","G","o","o","g","l","e"," ","S","e","a","r","c","h">>

\* str(v) of a cell of the row: pandas gives an empty cell as the float NaN
PyStr(v) == IF v = NaN THEN S_nan ELSE v

\* format_query(row) and _format_query_from_row(row); a missing column reads ""
format_query(row) ==
    LET q0 == Strip(PyStr(row.query))
        q1 == Replace(q0, S_COUNTYSEAT, Strip(PyStr(row.CountySeat)))
    IN  Replace(q1, S_STATE, Strip(PyStr(row.State)))

\* re.error raised, where a str is expected
ReError == <<"#re.error">>

\* what re.sub makes of a character escaped in its replacement: the escapes of
\* the replacement template, ReError for an escape that raises re.error (an
\* ASCII letter that is no escape, a group the pattern does not have); any
\* other character stays behind its backslash
Escaped(c) ==
    CASE c = "\\" -> <<"\\">>
      [] c = "n" -> <<"\n">>
      [] c = "t" -> <<"\t">>
      [] c = "r" -> <<"\r">>
      [] c = "f" -> <<"\f">>
      [] c = "a" -> <<"BEL">>
      [] c = "b" -> <<"BS">>
      [] c = "v" -> <<"VT">>
      [] c = "0" -> <<"NUL">>
      [] c \in SeqToSet(UpperLetters) \cup SeqToSet(LowerLetters) \cup Digits -> ReError
      [] OTHER -> <<"\\", c>>

\* the replacement template `query` expanded for the match m, from position i
\* on; ReError when the template raises re.error (a bad escape, a backslash at
\* the end, a group reference other than \g<0>)
RECURSIVE ExpandTemplate(_, _, _)
ExpandTemplate(query, i, m) ==
    IF i > Len(query) THEN <<>>
    ELSE IF query[i] # "\\"
    THEN LET rest == ExpandTemplate(query, i + 1, m)
         IN  IF rest = ReError THEN ReError ELSE <<query[i]>> \o rest
    ELSE IF i = Len(query) THEN ReError
    ELSE IF query[i + 1] = "g"
    THEN IF Slice(query, i + 1, i + 4) = <<"<", "0", ">">>
         THEN LET rest == ExpandTemplate(query, i + 5, m)
              IN  IF rest = ReError THEN ReError ELSE m \o rest
         ELSE ReError
    ELSE LET c == Escaped(query[i + 1])
             rest == ExpandTemplate(query, i + 2, m)
         IN  IF c = ReError \/ rest = ReError THEN ReError ELSE c \o rest

\* re.sub compiles the replacement before it looks for a match: re.error
RaisesReError(query) == ExpandTemplate(query, 1, <<>>) = ReError

\* re.sub(r"^.*(?= - Google Search$)", query, s): the prefix before the final
\* " - Google Search" (a last line terminator allowed after it) is replaced when it
\* holds no line terminator, which "." does not match
SubTitle(s, query) ==
    LET body == IF EndsWith(s, <<"\n">>) /\ ~EndsWith(s, S_GoogleSearch)
                THEN SubSeq(s, 1, Len(s) - 1) ELSE s
        tail == SubSeq(s, Len(body) + 1, Len(s))
        prefix == SubSeq(body, 1, Len(body) - Len(S_GoogleSearch))
    IN  IF EndsWith(body, S_GoogleSearch) /\ ~Contains(prefix, <<"\n">>)
        THEN ExpandTemplate(query, 1, prefix) \o S_GoogleSearch \o tail
        ELSE s

\* set_search_query raises: the page has a title with a text, and the query
\* is no replacement template
set_search_query_raises(h, doc, query) ==
    LET title == find(h, doc, "title")
    IN  title # 0 /\ StringOf(h, title) \notin {NoString, <<>>} /\ RaisesReError(query)

\* set_search_query(soup, query) and _replace_search_bar_query(soup, query)
set_search_query(h, doc, query) ==
    LET ta == find_id(h, doc, "textarea", S_APjFqb)
        h1 == IF ta # 0
              THEN SetText(SetAttr(h, ta, "value", query), ta, query)
              ELSE h
        title == find(h1, doc, "title")
    IN  IF title # 0 /\ StringOf(h1, title) \notin {NoString, <<>>}
        THEN SetText(h1, title, SubTitle(StringOf(h1, title), query))
        ELSE h1

\* The rows and the page heads the query functions are run on.
MaxQueryPieces == 3

QueryPieces == { S_COUNTYSEAT, S_STATE, <<"i","n">>, <<" ">>, <<",">> }

Queries == { Concat(ps) : ps \in SeqsUpTo(QueryPieces, MaxQueryPieces) }

CountySeats == { <<"E","l">>, <<"S","T","A","T","E"," ","L">>, <<" ","E","l">>, <<>>, NaN }

States == { <<"I","L">>, <<"I","L"," ">>, NaN }

\* the head of a saved page: the search box and the page title
HeadMarkup(hasBox, title) ==
    (IF hasBox
     THEN <<E("textarea", S_APjFqb, {}, [a \in {"value"} |-> <<"o","l","d">>],
             <<T(<<"o","l","d">>)>>)>>
     ELSE <<>>)
    \o
    (IF title = NoString THEN <<>>
     ELSE <<E("title", <<>>, {}, NoAttrs, IF title = <<>> THEN <<>> ELSE <<T(title)>>)>>)

Titles ==
    { NoString, <<>>, <<"o","l","d">> \o S_GoogleSearch, <<"o","l","d">>,
      <<"o","\n","d">> \o S_GoogleSearch, <<"o">> \o S_GoogleSearch \o <<"\n">> }

QueryInit ==
    /\ pc = "format_query"
    /\ arg \in [query : Queries, CountySeat : CountySeats, State : States,
                hasBox : BOOLEAN, title : Titles]
    /\ ret = None
    /\ LET b == Build(<<>>, E("html", <<>>, {}, NoAttrs, HeadMarkup(arg.hasBox, arg.title)))
       IN  heap = b.h /\ soup = b.id
    /\ resp = None
    /\ NoRun

\* main: q = format_query(row)
FormatQuery ==
    /\ pc = "format_query"
    /\ ret' = format_query(arg)
    /\ pc' = "set_search_query"
    /\ UNCHANGED <<arg, docVars, fmtVars, runVars>>

\* render_serp / render_one: set_search_query(soup, query)
SetSearchQuery ==
    /\ pc = "set_search_query"
    /\ heap' = set_search_query(heap, soup, ret)
    /\ pc' = "query_done"
    /\ UNCHANGED <<arg, ret, soup, fmtVars, runVars>>

QueryNext == FormatQuery \/ SetSearchQuery

SpecQuery == QueryInit /\ [][QueryNext]_vars

\* the query with both placeholders of the original text substituted at once
RECURSIVE SubstituteBoth(_, _, _, _)
SubstituteBoth(q, i, seat, state) ==
    IF i > Len(q) THEN <<>>
    ELSE IF OccursAt(q, i, S_COUNTYSEAT)
         THEN seat \o SubstituteBoth(q, i + Len(S_COUNTYSEAT), seat, state)
    ELSE IF OccursAt(q, i, S_STATE)
         THEN state \o SubstituteBoth(q, i + Len(S_STATE), seat, state)
    ELSE <<q[i]>> \o SubstituteBoth(q, i + 1, seat, state)

\* C9: for a record whose CountySeat and State are present and carry no
\* surrounding white space, the search box's value and text are the trimmed
\* query with every COUNTYSEAT of the original query replaced by CountySeat and
\* every STATE of the original query replaced by State, nothing else changed.
C9_QuerySubstitution ==
    (/\ pc = "query_done"
     /\ arg.hasBox
     /\ NaN \notin {arg.query, arg.CountySeat, arg.State}
     /\ arg.CountySeat = Strip(arg.CountySeat)
     /\ arg.State = Strip(arg.State))
        => LET ta == find_id(heap, soup, "textarea", S_APjFqb)
               want == SubstituteBoth(Strip(arg.query), 1, arg.CountySeat, arg.State)
           IN  /\ heap[ta].attrs["value"] = want
               /\ StringOf(heap, ta) = want

(***************************************************************************)
(* Snippet condensation: table_blob_to_googleish_snippet.                  *)
(***************************************************************************)
S_Table_title == <<"T","a","b","l","e","_","t","i","t","l","e",":">>
S_Table_content == <<"T","a","b","l","e","_","c","o","n","t","e","n","t",":">>
S_row == <<"r","o","w",":">>
S_header == <<"h","e","a","d","e","r",":">>
Ellipsis == <<"...">>

\* the first position at or after i that holds no white space (Len(s) + 1: none)
RECURSIVE SkipWs(_, _)
SkipWs(s, i) == IF i <= Len(s) /\ s[i] \in Whitespace THEN SkipWs(s, i + 1) ELSE i

\* str.split(): the maximal runs without white space
RECURSIVE SplitWsFrom(_, _, _)
SplitWsFrom(s, i, cur) ==
    IF i > Len(s) THEN (IF cur = <<>> THEN <<>> ELSE <<cur>>)
    ELSE IF s[i] \in Whitespace
         THEN (IF cur = <<>> THEN <<>> ELSE <<cur>>) \o SplitWsFrom(s, i + 1, <<>>)
         ELSE SplitWsFrom(s, i + 1, Append(cur, s[i]))

SplitWs(s) == SplitWsFrom(s, 1, <<>>)

\* str.split(c) on one character: empty pieces are kept
RECURSIVE SplitOnFrom(_, _, _, _)
SplitOnFrom(s, i, c, cur) ==
    IF i > Len(s) THEN <<cur>>
    ELSE IF s[i] = c THEN <<cur>> \o SplitOnFrom(s, i + 1, c, <<>>)
    ELSE SplitOnFrom(s, i + 1, c, Append(cur, s[i]))

SplitOn(s, c) == SplitOnFrom(s, 1, c, <<>>)

\* [x.strip() for x in pieces if x.strip()]
StripNonEmpty(pieces) ==
    LET stripped == [i \in 1..Len(pieces) |-> Strip(pieces[i])]
        Keep(x) == x # <<>>
    IN  SelectSeq(stripped, Keep)

\* re.sub(r"\s{2,}", " ", s)
RECURSIVE CollapseWs(_, _)
CollapseWs(s, i) ==
    IF i > Len(s) THEN <<>>
    ELSE IF s[i] \in Whitespace /\ i + 1 <= Len(s) /\ s[i + 1] \in Whitespace
         THEN <<" ">> \o CollapseWs(s, SkipWs(s, i))
         ELSE <<s[i]>> \o CollapseWs(s, i + 1)

\* re.sub(r"\b(m1|m2):\s*", "", s): a marker that starts at a word boundary is
\* removed together with the white space after it
RECURSIVE RemoveMarkers(_, _, _)
RemoveMarkers(s, i, markers) ==
    IF i > Len(s) THEN <<>>
    ELSE IF /\ (i = 1 \/ ~IsWordChar(s[i - 1]))
            /\ \E m \in markers : OccursAt(s, i, m)
         THEN LET m == CHOOSE m \in markers : OccursAt(s, i, m)
              IN  RemoveMarkers(s, SkipWs(s, i + Len(m)), markers)
         ELSE <<s[i]>> \o RemoveMarkers(s, i + 1, markers)

\* re.search(r"Table_title:\s*(.*?)(?=\s*Table_content:|\s*$)", s): group(1)
\* stripped, "" when there is no title marker
TitleOf(s) ==
    IF ~Contains(s, S_Table_title) THEN <<>>
    ELSE LET i == CHOOSE i \in 1..Len(s) :
                    /\ OccursAt(s, i, S_Table_title)
                    /\ \A j \in 1..(i - 1) : ~OccursAt(s, j, S_Table_title)
             p == SkipWs(s, i + Len(S_Table_title))
             Stop(e) == LET j == SkipWs(s, e)
                        IN  j = Len(s) + 1 \/ OccursAt(s, j, S_Table_content)
             e == CHOOSE e \in p..(Len(s) + 1) :
                    Stop(e) /\ \A f \in p..(e - 1) : ~Stop(f)
         IN  Strip(SubSeq(s, p, e - 1))

\* re.search(r"row:\s*(\|.*?\|)\s*(?=row:|$)", s): the match that starts at i
\* has its first pipe at RowOpen(s, i) and its last at a position of RowCloses
RowOpen(s, i) == SkipWs(s, i + Len(S_row))

RowCloses(s, i) ==
    { b \in (RowOpen(s, i) + 1)..Len(s) :
        /\ s[b] = "|"
        /\ LET j == SkipWs(s, b + 1)
           IN  j = Len(s) + 1 \/ OccursAt(s, j, S_row) }

RowStarts(s) ==
    { i \in 1..Len(s) :
        /\ OccursAt(s, i, S_row)
        /\ RowOpen(s, i) <= Len(s)
        /\ s[RowOpen(s, i)] = "|"
        /\ RowCloses(s, i) # {} }

Min(S) == CHOOSE x \in S : \A y \in S : x <= y

\* mr.group(1): the leftmost match, its pipe row as short as possible
RowOf(s) ==
    LET i == Min(RowStarts(s))
    IN  SubSeq(s, RowOpen(s, i), Min(RowCloses(s, i)))

\* zip(keys, vals) flattened: parts += [k, v]
RECURSIVE ZipPairs(_, _)
ZipPairs(keys, vals) ==
    IF keys = <<>> \/ vals = <<>> THEN <<>>
    ELSE <<Head(keys), Head(vals)>> \o ZipPairs(Tail(keys), Tail(vals))

\* the condensed text: out as it stands before the final truncation
Condense(s0) ==
    LET s == Join(<<" ">>, SplitWs(s0))
        title == TitleOf(s)
    IN  IF RowStarts(s) = {}
        THEN LET o1 == RemoveMarkers(s, 1, {S_Table_title, S_Table_content})
                 o2 == Replace(RemoveMarkers(o1, 1, {S_header, S_row}), <<"|">>, <<" ">>)
                 o3 == Strip(CollapseWs(o2, 1))
             IN  IF title # <<>> THEN Strip(title \o <<" ">> \o o3) ELSE o3
        ELSE LET cells == StripNonEmpty(SplitOn(StripChars(Strip(RowOf(s)), {"|"}), "|"))
                 parts0 == IF title # <<>> THEN <<title>> ELSE <<>>
                 parts ==
                    IF Len(cells) = 2 /\ Contains(cells[1], <<":">>)
                                      /\ Contains(cells[2], <<":">>)
                    THEN parts0 \o ZipPairs(StripNonEmpty(SplitOn(cells[1], ":")),
                                            StripNonEmpty(SplitOn(cells[2], ":")))
                    ELSE Append(parts0, Join(<<" ">>, cells))
             IN  CollapseWs(Strip(Join(<<" ">>, parts)), 1)

\* a truncation that already cuts a text of exactly max_chars characters
TruncateAtBudget(out, max_chars) ==
    IF Len(out) >= max_chars
    THEN RStrip(Slice(out, 0, max_chars - 1)) \o Ellipsis
    ELSE out

\* (out[: max_chars - 1].rstrip() + "...") if len(out) > max_chars else out,
\* for max_chars >= 1; the ellipsis is the one character U+2026
Truncate(out, max_chars) ==
    IF Len(out) > max_chars
    THEN RStrip(Slice(out, 0, max_chars - 1)) \o Ellipsis
    ELSE out

table_blob_to_googleish_snippet(s, max_chars) ==
    IF s = <<>> THEN <<>> ELSE Truncate(Condense(s), max_chars)

\* The raw snippet texts and the character budgets the function is run on.
MaxSnippetPieces == 4
MaxBudget == 6

SnippetPieces ==
    { S_Table_title, S_Table_content, S_row, S_header,
      <<" ">>, <<"a","b">>, <<"|">>,
      <<"|"," ","k",":","j"," ","|"," ","v",":","w"," ","|">> }

SnippetInputs == { Concat(ps) : ps \in SeqsUpTo(SnippetPieces, MaxSnippetPieces) }

Budgets == 3..MaxBudget

SnippetInit ==
    /\ pc = "snippet"
    /\ arg \in [s : SnippetInputs, max_chars : Budgets]
    /\ ret = None
    /\ heap = <<>>
    /\ soup = 0
    /\ resp = None
    /\ NoRun

\* fill_one_result: table_blob_to_googleish_snippet(snippet)
Snippet ==
    /\ pc = "snippet"
    /\ ret' = table_blob_to_googleish_snippet(arg.s, arg.max_chars)
    /\ pc' = "snippet_done"
    /\ UNCHANGED <<arg, docVars, fmtVars, runVars>>

SnippetNext == Snippet

SpecSnippet == SnippetInit /\ [][SnippetNext]_vars

\* C4 as claimed: a condensed text of exactly max_chars characters is returned
\* unmodified; one of max_chars + 1 characters gives a result that ends with
\* the ellipsis and has exactly max_chars characters.
C4_TruncationBoundary ==
    pc = "snippet_done" =>
        LET out == Condense(arg.s)
        IN  /\ Len(out) = arg.max_chars => ret = out
            /\ Len(out) = arg.max_chars + 1 =>
                    /\ EndsWith(ret, Ellipsis)
                    /\ Len(ret) = arg.max_chars

\* C4 amended: a condensed text of exactly max_chars characters is returned
\* unmodified; one of max_chars + 1 characters gives its first max_chars - 1
\* characters, white space at their end removed, followed by the ellipsis: the
\* result has max_chars characters when the character cut before is no white
\* space, and max_chars - 1 when it is.
C4_TruncationBoundaryAmended ==
    pc = "snippet_done" =>
        LET out == Condense(arg.s)
            m == arg.max_chars
        IN  /\ Len(out) = m => ret = out
            /\ Len(out) = m + 1 =>
                    /\ EndsWith(ret, Ellipsis)
                    /\ SubSeq(ret, 1, Len(ret) - 1) = RStrip(SubSeq(out, 1, m - 1))
                    /\ Len(ret) = (IF out[m - 1] \in Whitespace THEN m - 1 ELSE m)

\* a text one character over the budget whose cut falls after a space
C4_Witness ==
    /\ pc = "snippet_done"
    /\ Len(Condense(arg.s)) = arg.max_chars + 1
    /\ Condense(arg.s)[arg.max_chars - 1] = " "
    /\ Len(ret) = arg.max_chars - 1

(***************************************************************************)
(* The reflow step: format_text.fmt.  The text-generation collaborator is  *)
(* external; its reply is any text its instructions (DEV, USR) allow: the  *)
(* input text with tags of the allowed list inserted, or no content.       *)
(***************************************************************************)
MaxTextLen == 3
MaxMarkers == 1

\* "Allowed tags only: <br>, <b>, <ul>, <ol>, <li>, <h3>, <h4>": a tag is one
\* element of the text
Markers ==
    { "<br>", "<b>", "</b>", "<ul>", "</ul>", "<ol>", "</ol>", "<li>", "</li>",
      "<h3>", "</h3>", "<h4>", "</h4>" }

\* the markers the replies of the model insert
InsertedMarkers == { "<br>", "<b>", "</b>" }

RECURSIVE Insertions(_, _)
Insertions(t, k) ==
    IF k = 0 THEN {t}
    ELSE LET less == Insertions(t, k - 1)
         IN  less \cup
             UNION { { SubSeq(u, 1, i) \o <<m>> \o SubSeq(u, i + 1, Len(u)) :
                         i \in 0..Len(u), m \in InsertedMarkers } : u \in less }

\* resp.choices[0].message.content: a reflow of the text, or None
Replies(text) == Insertions(text, MaxMarkers) \cup {NoString}

\* the text of a reply without its markers
NonMarkerText(t) == LET Keep(c) == c \notin Markers IN SelectSeq(t, Keep)

AnswerTexts == SeqsUpTo({"a", "b", " ", "\n"}, MaxTextLen) \cup {NaN}

\* text = "" if pd.isna(text) else str(text)
TextOf(v) == IF v = NaN THEN <<>> ELSE v

FmtInit ==
    /\ pc = "fmt_call"
    /\ arg \in [text : AnswerTexts, totals : {[in |-> 0, out |-> 0]}]
    /\ ret = None
    /\ resp = None
    /\ NoRun
    /\ heap = <<>>
    /\ soup = 0

\* client.chat.completions.create(...) returns
FmtReply ==
    /\ pc = "fmt_call"
    /\ \E content \in Replies(TextOf(arg.text)), usage \in {None, "usage"} :
          resp' = [content |-> content, usage |-> usage]
    /\ pc' = "fmt_reply"
    /\ UNCHANGED <<arg, ret, docVars, runVars>>

\* client.chat.completions.create(...) fails: the exception leaves fmt
FmtRaise ==
    /\ pc = "fmt_call"
    /\ pc' = "fmt_raised"
    /\ UNCHANGED <<arg, ret, resp, docVars, runVars>>

\* the rest of fmt: the usage is added to totals (one prompt token and one
\* completion token per element) and the content is returned without the line
\* terminators at its end
FmtReturn ==
    /\ pc = "fmt_reply"
    /\ ret' = [text |-> IF resp.content = NoString THEN <<>>
                        ELSE RStripChars(resp.content, {"\n"}),
               totals |-> IF resp.usage = None THEN arg.totals
                          ELSE [in |-> arg.totals.in + Len(TextOf(arg.text)),
                                out |-> arg.totals.out +
                                    (IF resp.content = NoString THEN 0
                                     ELSE Len(resp.content))]]
    /\ pc' = "fmt_done"
    /\ UNCHANGED <<arg, resp, docVars, runVars>>

FmtNext == FmtReply \/ FmtRaise \/ FmtReturn

SpecFmt == FmtInit /\ [][FmtNext]_vars

\* C8: when the collaborator's reply is a reflow of the answer text (the text
\* with markers inserted), the non-marker text of what fmt returns, in order,
\* is the original answer text exactly.
C8_ContentPreservation ==
    (/\ pc = "fmt_done"
     /\ resp.content # NoString
     /\ NonMarkerText(resp.content) = TextOf(arg.text))
        => NonMarkerText(ret.text) = TextOf(arg.text)

(***************************************************************************)
(* The SourceItems of a record: a DataFrame, modelled by its rows in order *)
(* and the rank columns it has.  A row keeps its index label (pos); a rank *)
(* cell is <<n>>, or <<>> for an empty cell (NaN).                         *)
(*                                                                         *)
(* DataFrame.sort_values(by, ascending=True, na_position="last") is called *)
(* with its default kind="quicksort".  With one column pandas sorts the    *)
(* cells that are not NaN with numpy's quicksort, which is not stable (the *)
(* order of equal cells is whatever the build's sort gives), and puts the  *)
(* NaN rows after them in their input order; with two columns it uses a   *)
(* lexicographic sort, which is stable.                                    *)
(***************************************************************************)
RankColumns == <<"rank", "source_rank">>

\* sort_cols = [c for c in ("rank", "source_rank") if c in sources_df.columns]
SortCols(df) == LET Has(c) == c \in df.columns IN SelectSeq(RankColumns, Has)

\* the permutations of a set, as sequences
RECURSIVE Perms(_)
Perms(S) ==
    IF S = {} THEN {<<>>}
    ELSE UNION { { <<x>> \o p : p \in Perms(S \ {x}) } : x \in S }

\* a set of numbers in ascending order
RECURSIVE Ascending(_)
Ascending(S) ==
    IF S = {} THEN <<>> ELSE <<Min(S)>> \o Ascending(S \ {Min(S)})

\* the orders numpy's quicksort may give the rows whose cell of column c is not
\* NaN: ascending by the cell, rows with equal cells in any order
RECURSIVE QuicksortOrders(_, _, _)
QuicksortOrders(rows, c, values) ==
    IF values = <<>> THEN {<<>>}
    ELSE LET group == { i \in 1..Len(rows) :
                          rows[i][c] # <<>> /\ rows[i][c][1] = Head(values) }
         IN  { p \o r : p \in Perms(group),
                        r \in QuicksortOrders(rows, c, Tail(values)) }

\* pandas nargsort for one column, na_position="last"
NargsortOrders(rows, c) ==
    LET idx == [i \in 1..Len(rows) |-> i]
        IsNaN(i) == rows[i][c] = <<>>
        values == { rows[i][c][1] : i \in { j \in 1..Len(rows) : ~IsNaN(j) } }
    IN  { o \o SelectSeq(idx, IsNaN) : o \in QuicksortOrders(rows, c, Ascending(values)) }

\* row i sorts before row j in the lexicographic sort of two columns (NaN last
\* in each), rows equal in both columns keeping their input order
LexBefore(rows, c1, c2, i, j) ==
    LET Lt(a, b) == a # <<>> /\ (b = <<>> \/ a[1] < b[1])
    IN  \/ Lt(rows[i][c1], rows[j][c1])
        \/ rows[i][c1] = rows[j][c1] /\ Lt(rows[i][c2], rows[j][c2])
        \/ rows[i][c1] = rows[j][c1] /\ rows[i][c2] = rows[j][c2] /\ i < j

\* pandas lexsort_indexer for two columns: the rows of S in their sorted order
RECURSIVE LexsortOrder(_, _, _, _)
LexsortOrder(rows, c1, c2, S) ==
    IF S = {} THEN <<>>
    ELSE LET m == CHOOSE i \in S : \A j \in S \ {i} : LexBefore(rows, c1, c2, i, j)
         IN  <<m>> \o LexsortOrder(rows, c1, c2, S \ {m})

\* the results sources_df.sort_values(sort_cols, ...) may give, when sort_cols
\* is not empty; the frame itself when it is
sort_values(df) ==
    LET cols == SortCols(df)
        orders == IF Len(cols) = 0 THEN {[i \in 1..Len(df.rows) |-> i]}
                  ELSE IF Len(cols) = 1 THEN NargsortOrders(df.rows, cols[1])
                  ELSE {LexsortOrder(df.rows, cols[1], cols[2], 1..Len(df.rows))}
    IN  { [df EXCEPT !.rows = AsSeq([k \in 1..Len(o) |-> df.rows[o[k]]])] : o \in orders }

\* a head that keeps one row too many
HeadOffByOne(df, n) == [df EXCEPT !.rows = Slice(df.rows, 0, n + 1)]

\* DataFrame.head(n) for n >= 0
head(df, n) == [df EXCEPT !.rows = Slice(df.rows, 0, n)]

\* The frames the sort is run on: up to MaxSortLen rows, ranks up to MaxRank.
MaxSortLen == 3
MaxRank == 2

RankCells == {<<>>} \cup { <<n>> : n \in 1..MaxRank }

SortFrames ==
    { [rows |-> [i \in 1..Len(cells) |->
                    [pos |-> i, rank |-> cells[i][1], source_rank |-> cells[i][2]]],
       columns |-> cs] :
        cells \in SeqsUpTo(RankCells \X {<<>>, <<1>>}, MaxSortLen),
        cs \in {{}, {"rank"}, {"source_rank"}, {"rank", "source_rank"}} }

SortInit ==
    /\ pc = "sort"
    /\ arg \in SortFrames
    /\ ret = None
    /\ resp = None
    /\ NoRun
    /\ heap = <<>>
    /\ soup = 0

\* render_serp / _replace_sources: sort by rank if present
SortValues ==
    /\ pc = "sort"
    /\ ret' \in sort_values(arg)
    /\ pc' = "sort_done"
    /\ UNCHANGED <<arg, docVars, fmtVars, runVars>>

SortNext == SortValues

SpecSort == SortInit /\ [][SortNext]_vars

\* the rank cells the frame was sorted by
SortKey(df, row) == [k \in 1..Len(SortCols(df)) |-> row[SortCols(df)[k]]]

\* C3: in the sorted sequence, two SourceItems with equal rank, and two with
\* no rank, are in the same relative order as in the input, and every
\* SourceItem without a rank comes after all ranked ones.
C3_StableSort ==
    pc = "sort_done" =>
        \A a, b \in 1..Len(ret.rows) :
            a < b =>
                /\ SortKey(arg, ret.rows[a]) = SortKey(arg, ret.rows[b])
                        => ret.rows[a].pos < ret.rows[b].pos
                /\ (SortCols(arg) # <<>> /\ SortKey(arg, ret.rows[a])[1] = <<>>)
                        => SortKey(arg, ret.rows[b])[1] = <<>>

(***************************************************************************)
(* The Sanitizer and the Record Binder of the search-result generators.    *)
(***************************************************************************)
S_ping == <<"p","i","n","g">>
JsAttrs == {"data-ved", "jsaction", "jscontroller", "jsname", "jsmodel", "jsuid"}
S_inert ==
    <<"p","o","i","n","t","e","r","-","e","v","e","n","t","s",":","n","o","n","e",";",
      " ","c","u","r","s","o","r",":","d","e","f","a","u","l","t",";">>

\* for a in nodes: for attr in names: if a.has_attr(attr): del a[attr]
DelAttrsAll(h, nodes, names) ==
    AsSeq([n \in 1..Len(h) |->
        IF n \in SeqToSet(nodes)
        THEN [h[n] EXCEPT !.attrs = [x \in (DOMAIN h[n].attrs) \ names |-> h[n].attrs[x]]]
        ELSE h[n]])

\* Tag.decompose(): the node leaves its parent
Decompose(h, n) ==
    LET p == ParentOf(h, n)
        Keep(x) == x # n
    IN  IF p = 0 THEN h ELSE [h EXCEPT ![p].kids = SelectSeq(@, Keep)]

RECURSIVE DecomposeAll(_, _)
DecomposeAll(h, nodes) ==
    IF nodes = <<>> \/ h = <<>> THEN h
    ELSE DecomposeAll(Decompose(h, Head(nodes)), Tail(nodes))

\* sanitize(result) of generate_serp_html, _sanitize_card(card) of
\* generate_aio_html: find_all looks below the node, never at the node itself
sanitize(h, result) ==
    LET h1 == DelAttrsAll(h, find_all(h, result, "a"), {"ping"})
    IN  DelAttrsAll(h1, find_all(h1, result, "*"), JsAttrs)

\* sanitize(result) of generate_aio_as_serp_html: span.vhJ6Pe goes first
sanitize_aio_as_serp(h, result) ==
    sanitize(DecomposeAll(h, find_all_class(h, result, "span", "vhJ6Pe")), result)

\* the style value _disable_all_links gives a link whose style was `style`
\* (<<>> when the link had none)
InertStyle(style) ==
    (IF style # <<>> /\ ~EndsWith(Strip(style), <<";">>) THEN style \o <<";">> ELSE style)
        \o S_inert

\* for a in links: del a["href"], a["target"], a["rel"]; a["style"] = ...
DisableLinks(h, links) ==
    LET h1 == DelAttrsAll(h, links, {"href", "target", "rel"})
    IN  AsSeq([n \in 1..Len(h1) |->
            IF n \in SeqToSet(links)
            THEN SetAttr(h1, n, "style", InertStyle(GetAttr(h1, n, "style", <<>>)))[n]
            ELSE h1[n]])

\* _disable_all_links(soup)
_disable_all_links(h, doc) == DisableLinks(h, find_all(h, doc, "a"))

\* the position of the first character of s at or after i that is in cs
\* (Len(s) + 1 when there is none)
RECURSIVE FindAny(_, _, _)
FindAny(s, i, cs) ==
    IF i > Len(s) \/ s[i] \in cs THEN i ELSE FindAny(s, i + 1, cs)

SchemeChars == SeqToSet(UpperLetters) \cup SeqToSet(LowerLetters) \cup Digits \cup {"+", "-", "."}

\* urlparse(url).netloc: what stands between the "//" that follows the scheme
\* and the next "/", "?" or "#"
Netloc(url) ==
    LET colon == FindAny(url, 1, {":"})
        hasScheme ==
            /\ 1 < colon /\ colon <= Len(url)
            /\ url[1] \in SeqToSet(UpperLetters) \cup SeqToSet(LowerLetters)
            /\ \A k \in 1..(colon - 1) : url[k] \in SchemeChars
        rest == IF hasScheme THEN Slice(url, colon, Len(url)) ELSE url
    IN  IF StartsWith(rest, <<"/", "/">>)
        THEN Slice(rest, 2, FindAny(rest, 3, {"/", "?", "#"}) - 1)
        ELSE <<>>

S_www == <<"w","w","w",".">>

\* _domain(url); the host keeps its case
_domain(url) ==
    LET d == Netloc(url) IN IF StartsWith(d, S_www) THEN Slice(d, 4, Len(d)) ELSE d

\* for node in nodes: node.clear(); node.append(text)
RECURSIVE SetTextAll(_, _, _)
SetTextAll(h, nodes, text) ==
    IF nodes = <<>> \/ h = <<>> THEN h
    ELSE SetTextAll(SetText(h, Head(nodes), text), Tail(nodes), text)

\* a sequence of at most one node: the node unless it is None
Maybe(n) == IF n = 0 THEN <<>> ELSE <<n>>

\* the default max_chars of table_blob_to_googleish_snippet
DefaultMaxChars == 260

\* the link given the URL whatever the URL is
BindLinkAlways(h, a, url) ==
    IF a # 0 THEN SetAttr(h, a, "href", url) ELSE h

\* if a is not None and url: a["href"] = url
BindLink(h, a, url) ==
    IF a # 0 /\ url # <<>> THEN SetAttr(h, a, "href", url) ELSE h

\* fill_one_result(result, url, title, snippet, source_name) of the generator
\* `variant`, up to its closing sanitize(result): the fields are bound
bind_fields(h, result, url, title, snippet, source_name, variant) ==
    LET display_site == IF Strip(source_name) # <<>> THEN Strip(source_name) ELSE _domain(url)
        a == select_one_in(h, result, "div", "yuRUbf", "a")
        h1 == BindLink(h, a, url)
        h3 == select_one_in(h1, result, "div", "yuRUbf", "h3")
        h2 == IF h3 # 0 /\ title # <<>> THEN SetText(h1, h3, title) ELSE h1
        h4 == SetTextAll(h2, find_all_class(h2, result, "span", "VuuXrf"), display_site)
        h5 == SetTextAll(h4, Maybe(find_class(h4, result, "div", "TbwUpd")), display_site)
        h6 == SetTextAll(h5, Maybe(find(h5, result, "cite")), display_site)
        text == IF variant = "aio_as_serp"
                THEN table_blob_to_googleish_snippet(snippet, DefaultMaxChars)
                ELSE Strip(snippet)
    IN  SetTextAll(h6, Maybe(find_class(h6, result, "div", "VwiC3b")), text)

\* the closing sanitize(result) of fill_one_result
sanitize_result(h, result, variant) ==
    IF variant = "aio_as_serp" THEN sanitize_aio_as_serp(h, result) ELSE sanitize(h, result)

\* a bind that gives up on a unit without link node
fill_linked_result(h, result, url, title, snippet, source_name, variant) ==
    IF select_one_in(h, result, "div", "yuRUbf", "a") = 0
    THEN sanitize_result(h, result, variant)
    ELSE sanitize_result(bind_fields(h, result, url, title, snippet, source_name, variant),
                         result, variant)

\* fill_one_result(result, url, title, snippet, source_name) of the generator
\* `variant`, its closing sanitize(result) included
fill_one_result(h, result, url, title, snippet, source_name, variant) ==
    sanitize_result(bind_fields(h, result, url, title, snippet, source_name, variant),
                    result, variant)

\* a locator that takes the last matching block
find_last_organic_result(h, rso) ==
    LET Organic(m) == find_class(h, m, "div", "yuRUbf") # 0
        hits == SelectSeq(find_all_class(h, rso, "div", "MjjYud"), Organic)
    IN  IF hits = <<>> THEN 0 ELSE hits[Len(hits)]

\* find_first_organic_result(rso)
find_first_organic_result(h, rso) ==
    LET Organic(m) == find_class(h, m, "div", "yuRUbf") # 0
    IN  First(SelectSeq(find_all_class(h, rso, "div", "MjjYud"), Organic))

(***************************************************************************)
(* The templates a run is given.  A template is an externally captured     *)
(* page; the ones here differ in the anchors they have, in where the       *)
(* result unit sits, in the nodes the unit has and in the style of links.  *)
(***************************************************************************)
\* the attributes of a set of <<name, value>> pairs
Attrs(pairs) ==
    [n \in { p[1] : p \in pairs } |-> (CHOOSE p \in pairs : p[1] = n)[2]]

LinkStyles ==
    { NoString, <<>>, <<"c",":","r">>, <<"c",":","r",";">>, <<"c",":","r",";"," ">> }

\* the attributes of a captured link: a target, tracking, and maybe a style
LinkAttrs(href, style) ==
    Attrs({ <<"href", href>>, <<"ping", S_ping>>, <<"data-ved", <<"v">>>>,
            <<"target", <<"_">>>>, <<"rel", <<"n">>>> }
          \cup (IF style = NoString THEN {} ELSE { <<"style", style>> }))

S_old_href == <<"h",":","/","/","o","/","x","_","f","i","l","e","s","/","p">>

\* the captured result unit: div.MjjYud holding div.yuRUbf
ResultUnit(fields, style) ==
    LET link(kids) ==
            E("div", <<>>, {"yuRUbf"}, NoAttrs,
              << E("a", <<>>, {}, LinkAttrs(S_old_href, style), kids) >>)
        h3 == E("h3", <<>>, {"LC20lb"}, Attrs({<<"jsname", <<"j">>>>}), <<T(<<"O","t">>)>>)
        site == E("span", <<>>, {"VuuXrf"}, NoAttrs, <<T(<<"O","s">>)>>)
        cite == E("cite", <<>>, {}, NoAttrs, <<T(<<"O","c">>)>>)
        crumb(inside) == E("div", <<>>, {"TbwUpd"}, NoAttrs, inside)
        snippet == E("div", <<>>, {"VwiC3b"}, Attrs({<<"jsaction", <<"k">>>>}),
                     <<T(<<"O","n">>)>>)
        more == E("span", <<>>, {"vhJ6Pe"}, NoAttrs, <<T(<<"m">>)>>)
        parts == CASE fields = "flat" ->
                       << link(<<h3>>), site, crumb(<<T(<<"O","b">>)>>), cite, snippet, more >>
                  [] fields = "nested" ->
                       << link(<<h3, crumb(<<site, cite>>)>>), snippet >>
                  [] OTHER -> << E("div", <<>>, {"yuRUbf"}, NoAttrs, <<>>) >>
    IN  E("div", <<>>, {"MjjYud"}, Attrs({<<"jscontroller", <<"c">>>>}), parts)

\* a captured block that is no organic result: div.MjjYud without div.yuRUbf
Decoy ==
    E("div", <<>>, {"MjjYud"}, NoAttrs,
      << E("a", <<>>, {}, Attrs({<<"href", <<"d">>>>}), <<T(<<"D">>)>>) >>)

S_rso == <<"r","s","o">>
S_old_title == <<"o","l","d">> \o S_GoogleSearch

\* the captured search-result page
SerpTemplate(t) ==
    LET unit == ResultUnit(t.fields, t.style)
        results ==
            CASE t.anchors = "no_unit" -> << Decoy >>
              [] t.shape = "plain" -> << unit, Decoy >>
              [] OTHER -> << Decoy, E("div", <<>>, {"wrap"}, NoAttrs, <<unit>>) >>
        rsoId == IF t.anchors = "no_rso" THEN <<"x">> ELSE S_rso
    IN  E("html", <<>>, {}, NoAttrs,
          << E("head", <<>>, {}, NoAttrs,
               << E("title", <<>>, {}, NoAttrs, <<T(S_old_title)>>) >>),
             E("body", <<>>, {}, NoAttrs,
               << E("textarea", S_APjFqb, {}, NoAttrs, <<T(<<"o","l","d">>)>>),
                  E("a", <<>>, {}, LinkAttrs(<<"f","i","l","e",":","/","/","/","n">>, t.style),
                    <<T(<<"N">>)>>),
                  E("div", rsoId, {}, NoAttrs, results) >>) >>)

SerpTemplates ==
    { [anchors |-> a, shape |-> "plain", fields |-> "flat", style |-> NoString] :
        a \in {"no_rso", "no_unit"} }
    \cup { [anchors |-> "ok", shape |-> sh, fields |-> f, style |-> NoString] :
             sh \in {"plain", "wrapped"}, f \in {"flat", "nested", "bare"} }
    \cup { [anchors |-> "ok", shape |-> "plain", fields |-> "flat", style |-> st] :
             st \in LinkStyles }

\* the raw template text after fix_asset_paths: the rewrite is applied to every
\* attribute value and text of the markup
RECURSIVE FixPaths(_, _)
FixPaths(t, variant) ==
    LET fix(v) == IF variant = "aio" THEN _fix_asset_paths(v) ELSE fix_asset_paths(v)
    IN  [t EXCEPT !.attrs = [a \in DOMAIN t.attrs |-> fix(t.attrs[a])],
                  !.text = fix(t.text),
                  !.kids = [i \in 1..Len(t.kids) |-> FixPaths(t.kids[i], variant)]]

(***************************************************************************)
(* The record stream: the SourceItems of a record, as the frame            *)
(* src_groups holds for it.  A cell is a text or NaN (an empty CSV cell);  *)
(* a rank cell is <<n>> or <<>> (NaN).                                     *)
(***************************************************************************)
MaxSources == 11
MaxRecords == 2
SerpCap == 10
AioCap == 8
AioAsSerpCap == 8

TextColumns == {"source_url", "source_title", "source_text", "source_name", "root_domain"}

\* the i-th SourceItem of n, with the ranks of a pattern
SourceItem(i, n, pattern) ==
    LET k == LowerLetters[i]
        blank == <<" ">>
    IN  [pos |-> i,
         source_url |->
            CASE i = 3 -> NaN
              [] i = 4 -> blank
              [] OTHER -> <<"h",":","/","/">> \o (IF i % 2 = 1 THEN S_www ELSE <<>>)
                             \o <<k, ".", "c", "/", "p">>,
         source_title |-> IF i = 2 THEN blank ELSE <<"T", k>>,
         source_text |-> <<" ", "S", k>>,
         source_name |->
            CASE i = 1 -> <<"N", " ", k>>
              [] i = 3 -> NaN
              [] OTHER -> blank,
         root_domain |-> IF i = 2 THEN <<"r", k>> ELSE blank,
         rank |->
            CASE pattern = "desc" -> <<n + 1 - i>>
              [] pattern = "tie" ->
                   IF i = n /\ n > 3 THEN <<>> ELSE IF i = 1 THEN <<2>>
                   ELSE IF i \in {2, 3} THEN <<1>> ELSE <<i>>
              [] pattern = "two" -> <<(n - i) \div 2 + 1>>
              [] OTHER -> <<>>,
         source_rank |-> IF pattern = "two" THEN <<i % 2>> ELSE <<>>]

RankPatterns == {"none", "desc", "tie", "two"}

ListLens == {0, 2, AioCap + 1, MaxSources}

SourceFrames ==
    { [rows |-> [i \in 1..n |-> SourceItem(i, n, pattern)],
       columns |-> TextColumns \cup
            (CASE pattern = "none" -> {}
               [] pattern = "two" -> {"rank", "source_rank"}
               [] OTHER -> {"rank"})] :
        n \in ListLens, pattern \in RankPatterns }

\* the count of distinct AI-answer sources looked up for a record
NSources == {0, 3, AioAsSerpCap + 1}

QueryRows ==
    { [query |-> <<"i","n"," ">> \o S_STATE, CountySeat |-> NaN, State |-> <<"I","L">>] }

\* rows whose query re.sub does not take for a replacement
BadQueryRows ==
    { [query |-> <<"a","\\","d">>, CountySeat |-> NaN, State |-> NaN] }

\* str(row.get(c, "")).strip()
Cell(df, row, c) == IF c \in df.columns THEN Strip(PyStr(row[c])) ELSE <<>>

(***************************************************************************)
(* The AI-answer generator (generate_aio_html): the answer body and the    *)
(* source cards.                                                           *)
(***************************************************************************)
S_eKIzJc == <<"e","K","I","z","J","c">>
S_no_text == <<"(No AI Overview text available for this row.)">>
HeaderMaxLen == 80

\* the blocks of the answer text: the runs of non-blank lines, each line stripped
RECURSIVE GroupBlocks(_, _)
GroupBlocks(lines, cur) ==
    LET done == IF cur = <<>> THEN <<>> ELSE <<cur>>
    IN  IF lines = <<>> THEN done
        ELSE IF Strip(Head(lines)) = <<>> THEN done \o GroupBlocks(Tail(lines), <<>>)
        ELSE GroupBlocks(Tail(lines), Append(cur, Strip(Head(lines))))

\* the markup _replace_aio_overview puts into the answer body for a text that
\* holds no markup and no character reference: a header for a one-line block
\* that ends with ":", a paragraph with its lines separated by <br> otherwise
OverviewMarkup(aio_text) ==
    LET blocks == GroupBlocks(SplitOn(Strip(aio_text), "\n"), <<>>)
        para(kids) == E("p", <<>>, {"T286Pc"}, NoAttrs, kids)
        br == E("br", <<>>, {}, NoAttrs, <<>>)
        Lines(b) == [j \in 1..(2 * Len(b) - 1) |->
                        IF j % 2 = 1 THEN T(b[(j + 1) \div 2]) ELSE br]
        Block(b) ==
            IF Len(b) = 1 /\ EndsWith(b[1], <<":">>) /\ Len(b[1]) <= HeaderMaxLen
            THEN E("div", <<>>, {"T286Pc"}, NoAttrs,
                   << E("strong", <<>>, {}, NoAttrs, <<T(b[1])>>) >>)
            ELSE para(Lines(b))
    IN  IF Strip(aio_text) = <<>> THEN << para(<<T(S_no_text)>>) >>
        ELSE [k \in 1..Len(blocks) |-> Block(blocks[k])]

\* _replace_aio_overview after the body is found: body.clear(), then the blocks
_replace_aio_overview(h, body, aio_text) ==
    LET r == BuildKids(Clear(h, body), OverviewMarkup(aio_text))
    IN  [r.h EXCEPT ![body].kids = r.ids]

\* card.stripped_strings: the texts of the card, stripped, the empty ones left out
stripped_strings(h, card) ==
    LET IsText(x) == ~IsTag(h, x)
        texts == SelectSeq(Descendants(h, card), IsText)
    IN  StripNonEmpty([i \in 1..Len(texts) |-> h[texts[i]].text])

\* _replace_first_text(card, old, new): the first string of the card equal to
\* old becomes new
_replace_first_text(h, card, old, new) ==
    LET Hit(x) == ~IsTag(h, x) /\ h[x].text = old
        node == First(SelectSeq(Descendants(h, card), Hit))
    IN  IF node = 0 THEN h ELSE [h EXCEPT ![node].text = new]

\* `new or old`
Or(new, old) == IF new # <<>> THEN new ELSE old

\* _build_card_from_template after _sanitize_card(card): link, visible texts
bind_card_fields(h1, card, url, title, snippet, source_name) ==
    LET a_main == find_class(h1, card, "a", "NDNGvf")
        h2 == BindLink(h1, a_main, url)
        visible == stripped_strings(h2, card)
        h3 == IF Len(visible) > 0
              THEN _replace_first_text(h2, card, visible[1], Or(title, visible[1]))
              ELSE h2
        h4 == IF Len(visible) > 1
              THEN _replace_first_text(h3, card, visible[2], Or(Strip(snippet), visible[2]))
              ELSE h3
    IN  IF Len(visible) > 2
        THEN _replace_first_text(h4, card, visible[3], Or(source_name, visible[3]))
        ELSE h4

\* _build_card_from_template after the deepcopy: sanitize, then link and texts
FillCard(h, card, url, title, snippet, source_name) ==
    bind_card_fields(sanitize(h, card), card, url, title, snippet, source_name)

\* Tag.replace_with(new): new takes the place of old under old's parent
ReplaceWith(h, old, new) ==
    LET p == ParentOf(h, old)
    IN  IF p = 0 THEN h
        ELSE [h EXCEPT ![p].kids =
                AsSeq([i \in 1..Len(@) |-> IF @[i] = old THEN new ELSE @[i]])]

\* the captured source card: div.MFrAxb
SourceCard(pad) ==
    LET txt(s) == IF pad THEN T(<<" ">> \o s \o <<" ">>) ELSE T(s)
    IN  E("div", <<>>, {"MFrAxb"}, Attrs({<<"jscontroller", <<"c">>>>}),
          << E("a", <<>>, {"NDNGvf"}, LinkAttrs(S_old_href, NoString), <<>>),
             E("div", <<>>, {}, Attrs({<<"jsname", <<"j">>>>}), <<txt(<<"O","t">>)>>),
             E("div", <<>>, {}, NoAttrs, <<txt(<<"O","n">>)>>),
             E("span", <<>>, {}, NoAttrs, <<txt(<<"O","s">>)>>) >>)

\* the captured AI-answer page
AioTemplate(t) ==
    LET card == IF t.anchors = "no_card" THEN <<>> ELSE << SourceCard(t.pad) >>
        item == E("li", <<>>, {"jydCyd"}, NoAttrs, IF t.card = "ul" THEN card ELSE <<>>)
        body == E("div", <<>>,
                  IF t.anchors = "no_body" THEN {"mZJni"} ELSE {"mZJni", "Dn7Fzd"},
                  NoAttrs, << E("p", <<>>, {}, NoAttrs, <<T(<<"f","r","o","g">>)>>) >>)
        list == E("ul", <<>>, IF t.anchors = "no_ul" THEN {} ELSE {"EJw9bc"},
                  NoAttrs, <<item>>)
    IN  E("html", <<>>, {}, NoAttrs,
          << E("head", <<>>, {}, NoAttrs,
               << E("title", <<>>, {}, NoAttrs, <<T(S_old_title)>>) >>),
             E("body", <<>>, {}, NoAttrs,
               << E("textarea", S_APjFqb, {}, NoAttrs, <<T(<<"o","l","d">>)>>),
                  E("div", IF t.anchors = "no_container" THEN <<"x">> ELSE S_eKIzJc,
                    {}, NoAttrs,
                    <<body, list>> \o (IF t.card = "ul" THEN <<>> ELSE card)) >>) >>)

AioTemplates ==
    { [anchors |-> a, card |-> "ul", pad |-> FALSE] :
        a \in {"no_container", "no_body", "no_ul", "no_card"} }
    \cup { [anchors |-> "ok", card |-> c, pad |-> p] :
             c \in {"ul", "aside"}, p \in BOOLEAN }

AioTexts ==
    { <<"a">>, <<"a",":">>, <<"a","\n","b">>, <<"a","\n"," ","\n","b",":">>, <<" ">> }

(***************************************************************************)
(* A run of a generator: main's loop over the record stream, and for each  *)
(* record the render function, a step at a time.                           *)
(***************************************************************************)
SerpVariants == {"serp", "aio_as_serp"}

\* what a run is started on: a generator, its template file, and the rows its
\* retrievals CSV may hold.  The record stream is read a row at a time: it
\* holds at most MaxRecords rows.
Envs ==
    { [variant |-> v, tmpl |-> t, queries |-> QueryRows] :
        v \in SerpVariants, t \in SerpTemplates }
    \cup { [variant |-> "aio", tmpl |-> t, queries |-> QueryRows] : t \in AioTemplates }

Init ==
    /\ pc = "main_loop"
    /\ env \in Envs
    /\ main = [i |-> 0, rendered |-> 0]
    /\ files = {}
    /\ loc = None
    /\ err = None
    /\ heap = <<>>
    /\ soup = 0
    /\ arg = None
    /\ ret = None
    /\ resp = None

\* main: the next row of retr; its id, its query, its SourceItems (and, in
\* generate_aio_as_serp_html, the count n_sources looked up for it)
NextRecord ==
    /\ pc = "main_loop"
    /\ main.i < MaxRecords
    /\ pc' = "render"
    /\ \E row \in env.queries, df \in SourceFrames,
          n \in (IF env.variant = "aio_as_serp" THEN NSources ELSE {0}),
          text \in (IF env.variant = "aio" THEN AioTexts ELSE {<<>>}) :
            loc' = [rid |-> main.i + 1, query |-> format_query(row),
                    group |-> df, sources_df |-> df, n_sources |-> n, aio_text |-> text,
                    rso |-> 0, template_result |-> 0, sorted |-> df, k |-> 0,
                    aio_container |-> 0, ul |-> 0, new_ul |-> 0, template_card |-> 0]
    /\ UNCHANGED <<arg, ret, resp, docVars, env, main, files, err>>

\* the template file of a run
Template == IF env.variant = "aio" THEN AioTemplate(env.tmpl) ELSE SerpTemplate(env.tmpl)

\* render_serp, render_one: read the template, fix the asset paths, parse, set
\* the search query; the re.error of set_search_query is caught nowhere
LoadTemplate ==
    /\ pc = "render"
    /\ LET b == Build(<<>>, FixPaths(Template, env.variant))
       IN  IF set_search_query_raises(b.h, b.id, loc.query)
           THEN /\ pc' = "aborted"
                /\ err' = "re.error"
                /\ UNCHANGED docVars
           ELSE /\ pc' = "locate"
                /\ err' = err
                /\ heap' = set_search_query(b.h, b.id, loc.query)
                /\ soup' = b.id
    /\ UNCHANGED <<arg, ret, resp, env, main, files, loc>>

\* render_serp: locate div#rso and the result unit, or raise RuntimeError
Locate ==
    /\ pc = "locate"
    /\ env.variant \in SerpVariants
    /\ LET rso == find_id(heap, soup, "div", S_rso)
           template_result == IF rso = 0 THEN 0 ELSE find_first_organic_result(heap, rso)
       IN  IF rso = 0
           THEN pc' = "aborted" /\ err' = "div#rso" /\ loc' = loc
           ELSE IF template_result = 0
           THEN pc' = "aborted" /\ err' = "div.MjjYud containing div.yuRUbf" /\ loc' = loc
           ELSE /\ pc' = "select"
                /\ err' = err
                /\ loc' = [loc EXCEPT !.rso = rso, !.template_result = template_result]
    /\ UNCHANGED <<arg, ret, resp, docVars, env, main, files>>

\* the number of SourceItems render_serp and _replace_sources keep
Cap(variant, n_sources) ==
    CASE variant = "serp" -> SerpCap
      [] variant = "aio" -> AioCap
      [] OTHER -> Min({AioAsSerpCap, n_sources})

\* render_serp: rso.clear(), sort by the rank columns, head(cap); `sorted`
\* records the frame between the sort and the head
SelectSources ==
    /\ pc = "select"
    /\ heap' = Clear(heap, loc.rso)
    /\ \E sorted \in sort_values(loc.sources_df) :
          loc' = [loc EXCEPT !.sorted = sorted,
                             !.sources_df = head(sorted, Cap(env.variant, loc.n_sources)),
                             !.k = 0]
    /\ pc' = "bind"
    /\ UNCHANGED <<arg, ret, resp, soup, env, main, files, err>>

\* the block bound in place: no copy is made of the unit
BindInPlace(h, template_result) == [h |-> h, id |-> template_result]

\* block = copy.deepcopy(template_result): [h |-> the heap, id |-> the block]
CloneUnit(h, template_result) == deepcopy(h, template_result)

\* render_serp: one turn of the loop over sources_df.iterrows()
BindOne ==
    /\ pc = "bind"
    /\ loc.k < Len(loc.sources_df.rows)
    /\ LET df == loc.sources_df
           row == df.rows[loc.k + 1]
           name == Cell(df, row, "source_name")
           source_name == IF name # <<>> THEN name ELSE Cell(df, row, "root_domain")
           block == CloneUnit(heap, loc.template_result)
           filled == fill_one_result(block.h, block.id, Cell(df, row, "source_url"),
                                     Cell(df, row, "source_title"),
                                     Cell(df, row, "source_text"), source_name, env.variant)
       IN  heap' = AppendChild(filled, loc.rso, block.id)
    /\ loc' = [loc EXCEPT !.k = @ + 1]
    /\ UNCHANGED <<pc, arg, ret, resp, soup, env, main, files, err>>

\* generate_aio_as_serp_html.render_serp: _disable_all_links(soup) after the loop
DisableAllLinks ==
    /\ pc = "bind"
    /\ loc.k = Len(loc.sources_df.rows)
    /\ env.variant = "aio_as_serp"
    /\ heap' = _disable_all_links(heap, soup)
    /\ pc' = "write"
    /\ UNCHANGED <<arg, ret, resp, soup, runVars>>

\* soup.find(id=i)
find_by_id(h, n, i) ==
    LET Hit(x) == IsTag(h, x) /\ h[x].idattr = i
    IN  First(SelectSeq(Descendants(h, n), Hit))

\* render_one: locate the AI Overview container, or raise RuntimeError
AioLocate ==
    /\ pc = "locate"
    /\ env.variant = "aio"
    /\ LET aio_container == find_by_id(heap, soup, S_eKIzJc)
       IN  IF aio_container = 0
           THEN pc' = "aborted" /\ err' = "id='eKIzJc'" /\ loc' = loc
           ELSE /\ pc' = "overview"
                /\ err' = err
                /\ loc' = [loc EXCEPT !.aio_container = aio_container]
    /\ UNCHANGED <<arg, ret, resp, docVars, env, main, files>>

\* _replace_aio_overview: the answer body is found and refilled, or RuntimeError
AioReplaceOverview ==
    /\ pc = "overview"
    /\ LET Hit(x) == heap[x].tag = "div" /\ {"mZJni", "Dn7Fzd"} \subseteq heap[x].cls
           body == First(SelectSeq(Descendants(heap, loc.aio_container), Hit))
       IN  IF body = 0
           THEN pc' = "aborted" /\ err' = "div.mZJni.Dn7Fzd" /\ heap' = heap
           ELSE /\ pc' = "sources"
                /\ err' = err
                /\ heap' = _replace_aio_overview(heap, body, loc.aio_text)
    /\ UNCHANGED <<arg, ret, resp, soup, env, main, files, loc>>

\* _replace_sources up to its loop: the list and the card are found (or
\* RuntimeError), the SourceItems sorted and cut, new_ul = copy.copy(ul) cleared
AioSelectSources ==
    /\ pc = "sources"
    /\ LET ul == find_class(heap, loc.aio_container, "ul", "EJw9bc")
           template_card == find_class(heap, loc.aio_container, "div", "MFrAxb")
           new_ul == deepcopy(heap, ul)
       IN  IF ul = 0
           THEN pc' = "aborted" /\ err' = "ul class='EJw9bc'" /\ UNCHANGED <<heap, loc>>
           ELSE IF template_card = 0
           THEN pc' = "aborted" /\ err' = "div.MFrAxb" /\ UNCHANGED <<heap, loc>>
           ELSE /\ pc' = "aio_bind"
                /\ err' = err
                /\ heap' = Clear(new_ul.h, new_ul.id)
                /\ \E sorted \in sort_values(loc.sources_df) :
                      loc' = [loc EXCEPT !.ul = ul, !.template_card = template_card,
                                         !.new_ul = new_ul.id, !.sorted = sorted,
                                         !.sources_df = head(sorted, Cap(env.variant, 0)),
                                         !.k = 0]
    /\ UNCHANGED <<arg, ret, resp, soup, env, main, files>>

\* card = copy.deepcopy(template_card): [h |-> the heap, id |-> the card]
CloneCard(h, template_card) == deepcopy(h, template_card)

\* _replace_sources: one turn of the loop: a new li, the card built from the
\* template, li.append(card), new_ul.append(li)
AioBindOne ==
    /\ pc = "aio_bind"
    /\ loc.k < Len(loc.sources_df.rows)
    /\ LET df == loc.sources_df
           row == df.rows[loc.k + 1]
           name == Cell(df, row, "source_name")
           source_name == IF name # <<>> THEN name ELSE Cell(df, row, "root_domain")
           li == Build(heap, E("li", <<>>, {"jydCyd"}, NoAttrs, <<>>))
           card == CloneCard(li.h, loc.template_card)
           filled == FillCard(card.h, card.id, Cell(df, row, "source_url"),
                              Cell(df, row, "source_title"),
                              Cell(df, row, "source_text"), source_name)
       IN  heap' = AppendChild(AppendChild(filled, li.id, card.id), loc.new_ul, li.id)
    /\ loc' = [loc EXCEPT !.k = @ + 1]
    /\ UNCHANGED <<pc, arg, ret, resp, soup, env, main, files, err>>

\* _replace_sources after its loop: ul.replace_with(new_ul)
AioReplaceUl ==
    /\ pc = "aio_bind"
    /\ loc.k = Len(loc.sources_df.rows)
    /\ heap' = ReplaceWith(heap, loc.ul, loc.new_ul)
    /\ pc' = "write"
    /\ UNCHANGED <<arg, ret, resp, soup, runVars>>

\* out_path.write_text(str(soup)): the file of the record is written
Write ==
    /\ \/ pc = "write"
       \/ pc = "bind" /\ loc.k = Len(loc.sources_df.rows) /\ env.variant = "serp"
    /\ files' = files \cup {loc.rid}
    /\ pc' = "written"
    /\ UNCHANGED <<arg, ret, resp, docVars, env, main, loc, err>>

\* the render function returns: rendered += 1, the document is dropped
Rendered ==
    /\ pc = "written"
    /\ main' = [i |-> main.i + 1, rendered |-> main.rendered + 1]
    /\ loc' = None
    /\ heap' = <<>>
    /\ soup' = 0
    /\ pc' = "main_loop"
    /\ UNCHANGED <<arg, ret, resp, env, files, err>>

\* main: the record stream is exhausted after main.i rows
MainDone ==
    /\ pc = "main_loop"
    /\ pc' = "done"
    /\ UNCHANGED <<arg, ret, resp, docVars, runVars>>

Next ==
    \/ NextRecord
    \/ LoadTemplate
    \/ Locate
    \/ SelectSources
    \/ BindOne
    \/ DisableAllLinks
    \/ AioLocate
    \/ AioReplaceOverview
    \/ AioSelectSources
    \/ AioBindOne
    \/ AioReplaceUl
    \/ Write
    \/ Rendered
    \/ MainDone

Spec == Init /\ [][Next]_vars

(***************************************************************************)
(* The Sanitizer run twice on a result unit or on a document: the          *)
(* instrumentation stripping of the generator (sanitize, _sanitize_card)   *)
(* and, in generate_aio_as_serp_html, _disable_all_links.                  *)
(***************************************************************************)
Sanitizer(h, root, variant) ==
    CASE variant = "aio_as_serp" -> _disable_all_links(sanitize_aio_as_serp(h, root), root)
      [] OTHER -> sanitize(h, root)

SanitizerInputs ==
    { [variant |-> e.variant, tmpl |-> e.tmpl, target |-> t] :
        e \in { x \in Envs : x.tmpl.anchors = "ok" }, t \in {"node", "document"} }

SanitizeInit ==
    /\ pc = "san0"
    /\ arg \in SanitizerInputs
    /\ LET unit == IF arg.variant = "aio" THEN SourceCard(arg.tmpl.pad)
                   ELSE ResultUnit(arg.tmpl.fields, arg.tmpl.style)
           page == IF arg.variant = "aio" THEN AioTemplate(arg.tmpl)
                   ELSE SerpTemplate(arg.tmpl)
           b == Build(<<>>, IF arg.target = "node" THEN unit ELSE page)
       IN  heap = b.h /\ soup = b.id
    /\ ret = None
    /\ resp = None
    /\ NoRun

\* one run of the Sanitizer; ret keeps the markup the first run leaves
SanitizerPass ==
    /\ pc \in {"san0", "san1"}
    /\ heap' = Sanitizer(heap, soup, arg.variant)
    /\ ret' = IF pc = "san0" THEN Markup(heap', soup) ELSE ret
    /\ pc' = IF pc = "san0" THEN "san1" ELSE "san2"
    /\ UNCHANGED <<arg, soup, fmtVars, runVars>>

SanitizeNext == SanitizerPass

SpecSanitize == SanitizeInit /\ [][SanitizeNext]_vars

\* C1: Sanitization is idempotent.  For every result unit and every document,
\* after the Sanitizer has run a second time the markup is exactly what the
\* first run left, the style value of every link included.
C1_SanitizeIdempotent ==
    pc = "san2" => Markup(heap, soup) = ret

(***************************************************************************)
(* Properties of a run.                                                    *)
(***************************************************************************)
\* the template unit of the record being rendered, once it is located
Located == pc \in {"select", "bind", "aio_bind", "write", "written"}
Unit == IF env.variant = "aio" THEN loc.template_card ELSE loc.template_result

\* the result entries of a document: the children of div#rso, or of the
\* sources list ul.EJw9bc
Entries(h, doc) ==
    IF env.variant = "aio"
    THEN h[find_class(h, doc, "ul", "EJw9bc")].kids
    ELSE h[find_id(h, doc, "div", S_rso)].kids

Last(q) == q[Len(q)]

\* C6: Clone-before-mutate.  While a record is rendered, no step changes the
\* located TemplateUnit: after every step, a bind included, it is equal to what
\* it was before; and the block a bind adds to the document is a fresh copy:
\* none of its nodes existed before the bind, none is a node of the unit.
C6_CloneBeforeMutate ==
    [][ (Located /\ Located') =>
          /\ Unit' = Unit
          /\ Markup(heap', Unit) = Markup(heap, Unit)
          /\ (loc'.k = loc.k + 1) =>
                LET added == IF env.variant = "aio" THEN Last(heap'[loc.new_ul].kids)
                             ELSE Last(heap'[loc.rso].kids)
                IN  /\ Subtree(heap', added) \cap Subtree(heap', Unit) = {}
                    /\ \A n \in Subtree(heap', added) : n > Len(heap) ]_vars

\* a second SourceItem has been bound
C6_Witness ==
    /\ pc \in {"bind", "aio_bind"}
    /\ loc.k >= 2
    /\ Unit # 0

\* the template lacks a required anchor
LacksAnchor == env.tmpl.anchors # "ok"

\* what the error of a run names, for each anchor a template may lack
AnchorNamed ==
    CASE env.tmpl.anchors = "no_rso" -> "div#rso"
      [] env.tmpl.anchors = "no_unit" -> "div.MjjYud containing div.yuRUbf"
      [] env.tmpl.anchors = "no_container" -> "id='eKIzJc'"
      [] env.tmpl.anchors = "no_body" -> "div.mZJni.Dn7Fzd"
      [] env.tmpl.anchors = "no_ul" -> "ul class='EJw9bc'"
      [] env.tmpl.anchors = "no_card" -> "div.MFrAxb"
      [] OTHER -> None

\* C7: Missing-anchor fatality.  When the template lacks a required
\* anchor, the run does not end normally: it aborts with an error that names
\* the missing anchor, and no output file has been written for any record.
C7_MissingAnchorFatality ==
    LacksAnchor =>
        /\ pc # "done"
        /\ files = {}
        /\ pc = "aborted" => err = AnchorNamed

\* row a sorts no later than row b by the rank columns of df, a missing rank last
RankLe(df, a, b) ==
    LET cols == SortCols(df)
        Lt(x, y) == x # <<>> /\ (y = <<>> \/ x[1] < y[1])
    IN  \/ cols = <<>>
        \/ Lt(a[cols[1]], b[cols[1]])
        \/ /\ a[cols[1]] = b[cols[1]]
           /\ Len(cols) = 2 => (Lt(a[cols[2]], b[cols[2]]) \/ a[cols[2]] = b[cols[2]])

\* `sorted` holds the SourceItems of `group` in ascending order of rank
SortedByRank(sorted, group) ==
    /\ Len(sorted.rows) = Len(group.rows)
    /\ SeqToSet(sorted.rows) = SeqToSet(group.rows)
    /\ \A a, b \in 1..Len(sorted.rows) :
          a < b => RankLe(group, sorted.rows[a], sorted.rows[b])

\* the template unit has a node for the snippet that a bind fills
ShowsSnippet == IF env.variant = "aio" THEN ~env.tmpl.pad ELSE env.tmpl.fields # "bare"

\* the snippet a result entry shows for a SourceItem
SnippetShown(row) ==
    IF env.variant = "aio_as_serp"
    THEN table_blob_to_googleish_snippet(Cell(loc.group, row, "source_text"), DefaultMaxChars)
    ELSE Cell(loc.group, row, "source_text")

\* the rendered document holds exactly n entries, and they are the first n
\* SourceItems of the record in ascending order of rank
RendersFirst(n) ==
    LET entries == Entries(heap, soup)
    IN  /\ Len(entries) = n
        /\ SortedByRank(loc.sorted, loc.group)
        /\ ShowsSnippet =>
              \A i \in 1..n :
                 SnippetShown(loc.sorted.rows[i]) \in
                    SeqToSet(stripped_strings(heap, entries[i]))

\* C2: Bounded fan-out.  For every record that has more SourceItems than the
\* cap (8 where AI-answer sources are rendered, 10 in the plain search-result
\* generator), the written document holds exactly cap result entries, the
\* first cap SourceItems of the record after sorting ascending by rank.
C2_BoundedFanOut ==
    LET cap == IF env.variant = "serp" THEN SerpCap ELSE AioCap
    IN  (pc = "written" /\ Len(loc.group.rows) > cap) => RendersFirst(cap)

\* C2, amended: Bounded fan-out.  The cap is 10 in the plain search-result
\* generator, 8 in the AI-answer generator, and the smaller of 8 and the
\* record's count of distinct AI-answer sources in the AI-answer-as-search-
\* result generator.  For every record that has more SourceItems than its cap,
\* the written document holds exactly cap result entries, the first cap
\* SourceItems of the record after sorting ascending by rank.
C2_BoundedFanOutAmended ==
    LET cap == Cap(env.variant, loc.n_sources)
    IN  (pc = "written" /\ Len(loc.group.rows) > cap) => RendersFirst(cap)

\* a record of nine SourceItems and three AI-answer sources is written with
\* three entries
C2_Witness ==
    /\ pc = "written"
    /\ env.variant = "aio_as_serp"
    /\ loc.n_sources < AioAsSerpCap
    /\ Len(loc.group.rows) > AioAsSerpCap
    /\ Len(Entries(heap, soup)) = loc.n_sources

\* the style a link of the template had before the run
PriorStyle ==
    IF env.variant = "aio" \/ env.tmpl.style = NoString THEN <<>> ELSE env.tmpl.style

\* C10: Link neutralization.  In the document written for a record, every link
\* element has no href, no target and no rel attribute, and its style value is
\* its prior style value, terminated by ';' when it was non-empty, followed by
\* 'pointer-events:none; cursor:default;'.
C10_LinkNeutralization ==
    pc = "written" =>
        \A a \in SeqToSet(find_all(heap, soup, "a")) :
            /\ ~has_attr(heap, a, "href")
            /\ ~has_attr(heap, a, "target")
            /\ ~has_attr(heap, a, "rel")
            /\ has_attr(heap, a, "style")
            /\ LET prior == PriorStyle
                   terminated == IF prior = <<>> \/ EndsWith(Strip(prior), <<";">>)
                                 THEN prior ELSE prior \o <<";">>
               IN  heap[a].attrs["style"] = terminated \o S_inert

\* the clones bound so far for the record being rendered: the blocks appended
\* to div#rso, or the cards of the items appended to the new sources list
Clones ==
    IF env.variant = "aio"
    THEN { heap[li].kids[1] : li \in SeqToSet(heap[loc.new_ul].kids) }
    ELSE SeqToSet(heap[loc.rso].kids)

\* C11: Instrumentation stripping.  After sanitize (or _sanitize_card) has run
\* on a clone, no element of the clone, its root element included, carries
\* data-ved, jsaction, jscontroller, jsname, jsmodel or jsuid.
C11_InstrumentationStripping ==
    pc \in {"bind", "aio_bind"} =>
        \A c \in Clones : \A n \in Subtree(heap, c) :
            IsTag(heap, n) => (DOMAIN heap[n].attrs) \cap JsAttrs = {}

(***************************************************************************)
(* The Record Binder on its own: fill_one_result and                       *)
(* _build_card_from_template applied to a copy of a unit that holds any    *)
(* subset of the per-field nodes, for the values render_serp and           *)
(* _replace_sources may pass.                                              *)
(***************************************************************************)
Fields == {"link", "title", "site", "crumb", "cite", "snippet"}

\* a captured result unit that holds the per-field nodes of `present` only
PartialUnit(present) ==
    LET Opt(f, node) == IF f \in present THEN <<node>> ELSE <<>>
        h3 == Opt("title", E("h3", <<>>, {"LC20lb"}, Attrs({<<"jsname", <<"j">>>>}),
                             <<T(<<"O","t">>)>>))
        top == E("div", <<>>, {"yuRUbf"}, NoAttrs,
                 IF "link" \in present
                 THEN << E("a", <<>>, {}, LinkAttrs(S_old_href, NoString), h3) >>
                 ELSE h3)
    IN  E("div", <<>>, {"MjjYud"}, Attrs({<<"jscontroller", <<"c">>>>}),
          <<top>>
          \o Opt("site", E("span", <<>>, {"VuuXrf"}, NoAttrs, <<T(<<"O","s">>)>>))
          \o Opt("crumb", E("div", <<>>, {"TbwUpd"}, NoAttrs, <<T(<<"O","b">>)>>))
          \o Opt("cite", E("cite", <<>>, {}, NoAttrs, <<T(<<"O","c">>)>>))
          \o Opt("snippet", E("div", <<>>, {"VwiC3b"}, Attrs({<<"jsaction", <<"k">>>>}),
                              <<T(<<"O","n">>)>>)))

\* a captured source card with or without its main link
PartialCard(present) ==
    LET card == SourceCard(FALSE)
        Keep(k) == k.tag # "a"
    IN  IF "link" \in present THEN card ELSE [card EXCEPT !.kids = SelectSeq(@, Keep)]

\* the values a bind is given
BindUrls ==
    { <<>>,
      <<"h",":","/","/","w","w","w",".","b",".","c","/","p">>,
      <<"h",":","/","/","W","W","W",".","B",".","c","/","p">>,
      <<"h",":","/","/","B",".","c">> }
BindTitles == { <<>>, <<"T","i">> }
BindNames == { <<>>, <<" ">>, <<"N"," ","n">> }
BindSnippets == { <<>>, <<"S","n">> }

BindInputs ==
    { [variant |-> v, present |-> p, url |-> u, title |-> t, snippet |-> sn,
       source_name |-> nm] :
        v \in SerpVariants, p \in SUBSET Fields, u \in BindUrls, t \in BindTitles,
        sn \in BindSnippets, nm \in BindNames }
    \cup
    { [variant |-> "aio", present |-> p, url |-> u, title |-> t, snippet |-> sn,
       source_name |-> nm] :
        p \in {{}, {"link"}}, u \in BindUrls, t \in BindTitles,
        sn \in BindSnippets, nm \in BindNames }

\* the template unit is parsed; soup is the unit
BindInit ==
    /\ pc = "bind0"
    /\ arg \in BindInputs
    /\ LET b == Build(<<>>, IF arg.variant = "aio" THEN PartialCard(arg.present)
                            ELSE PartialUnit(arg.present))
       IN  heap = b.h /\ soup = b.id
    /\ ret = None
    /\ resp = None
    /\ NoRun

\* block = copy.deepcopy(template_result); fill_one_result(block, ...), or
\* _build_card_from_template(template_card, ...); ret is the clone returned
Bind ==
    /\ pc = "bind0"
    /\ LET block == IF arg.variant = "aio" THEN CloneCard(heap, soup)
                    ELSE CloneUnit(heap, soup)
       IN  /\ heap' = IF arg.variant = "aio"
                      THEN FillCard(block.h, block.id, arg.url, arg.title, arg.snippet,
                                    arg.source_name)
                      ELSE fill_one_result(block.h, block.id, arg.url, arg.title,
                                           arg.snippet, arg.source_name, arg.variant)
           /\ ret' = block.id
    /\ pc' = "bound"
    /\ UNCHANGED <<arg, soup, resp, runVars>>

BindNext == Bind

SpecBind == BindInit /\ [][BindNext]_vars

\* the node of a field in a unit or a clone (None when the unit has none)
FieldNode(h, r, f) ==
    CASE f = "link" -> IF h[r].tag = "div" /\ "MFrAxb" \in h[r].cls
                       THEN find_class(h, r, "a", "NDNGvf")
                       ELSE select_one_in(h, r, "div", "yuRUbf", "a")
      [] f = "title" -> select_one_in(h, r, "div", "yuRUbf", "h3")
      [] f = "site" -> find_class(h, r, "span", "VuuXrf")
      [] f = "crumb" -> find_class(h, r, "div", "TbwUpd")
      [] f = "cite" -> find(h, r, "cite")
      [] OTHER -> find_class(h, r, "div", "VwiC3b")

\* the texts a node holds, in document order
Texts(h, n) ==
    LET IsText(x) == ~IsTag(h, x)
        texts == SelectSeq(Descendants(h, n), IsText)
    IN  [i \in 1..Len(texts) |-> h[texts[i]].text]

\* C12: Link target binding.  For a unit that has a link node, the href of
\* the clone that the bind returns is the URL given for the SourceItem when
\* that URL is non-empty, and the href of the template unit, unchanged, when
\* the URL is empty.
C12_LinkTargetBinding ==
    pc = "bound" =>
        LET old == FieldNode(heap, soup, "link")
            a == FieldNode(heap, ret, "link")
        IN  old # 0 =>
              /\ a # 0
              /\ has_attr(heap, a, "href")
              /\ heap[a].attrs["href"] =
                    IF arg.url # <<>> THEN arg.url ELSE heap[old].attrs["href"]

\* a unit with a link has been bound to an empty URL, and the clone has kept
\* the link target of the capture
C12_Witness ==
    /\ pc = "bound"
    /\ arg.url = <<>>
    /\ FieldNode(heap, ret, "link") # 0
    /\ heap[FieldNode(heap, ret, "link")].attrs["href"] = S_old_href

\* the host component of a URL, lower-cased, a leading "www." removed
LowerHost(url) ==
    LET d == Lower(Netloc(url)) IN IF StartsWith(d, S_www) THEN Slice(d, 4, Len(d)) ELSE d

\* C13: Display-name fallback.  After a bind to a search-result unit, the
\* display-name span, the breadcrumb line and the citation line show the
\* display name given for the SourceItem when it is not blank, and otherwise
\* the host of its URL, lower-cased and without a leading "www.".
C13_DisplayNameFallback ==
    (pc = "bound" /\ arg.variant \in SerpVariants) =>
        LET shown == IF Strip(arg.source_name) # <<>>
                     THEN Strip(arg.source_name) ELSE LowerHost(arg.url)
        IN  \A f \in {"site", "crumb", "cite"} \cap arg.present :
                /\ FieldNode(heap, ret, f) # 0
                /\ Texts(heap, FieldNode(heap, ret, f)) = <<shown>>

\* C14: Title binding.  For every SourceItem bound to a search-result unit
\* that has a title node, the title node of the clone holds exactly the title
\* given for the SourceItem, and none of the title text of the template unit.
C14_TitleBinding ==
    (pc = "bound" /\ arg.variant \in SerpVariants /\ "title" \in arg.present) =>
        /\ FieldNode(heap, ret, "title") # 0
        /\ Texts(heap, FieldNode(heap, ret, "title")) = <<arg.title>>

\* a record is being rendered
Rendering ==
    pc \in {"render", "locate", "select", "bind", "overview", "sources", "aio_bind",
            "write", "written"}

\* the record being rendered has no matching SourceItems, on a template that
\* has every required anchor
NoSourceItems == Rendering /\ ~LacksAnchor /\ Len(loc.group.rows) = 0

RunEnvs ==
    { [e EXCEPT !.queries = QueryRows \cup BadQueryRows] :
        e \in { x \in Envs :
                    /\ x.tmpl.anchors = "ok"
                    /\ IF x.variant = "aio" THEN x.tmpl.card = "ul" /\ ~x.tmpl.pad
                       ELSE /\ x.tmpl.shape = "plain" /\ x.tmpl.fields = "flat"
                            /\ x.tmpl.style = NoString } }

RunInit ==
    /\ pc = "main_loop"
    /\ env \in RunEnvs
    /\ main = [i |-> 0, rendered |-> 0]
    /\ files = {}
    /\ loc = None
    /\ err = None
    /\ heap = <<>>
    /\ soup = 0
    /\ arg = None
    /\ ret = None
    /\ resp = None

SpecRun == RunInit /\ [][Next]_vars

\* C16: Per-record failures never abort the run.  A failure raised while one
\* record is rendered (here the re.error of set_search_query, on a template
\* that has every anchor) does not end the run: the run is not left aborted by
\* it, so every later record of the stream is still rendered.
C16_FailuresDoNotAbort ==
    err = "re.error" => pc # "aborted"

(***************************************************************************)
(* The steps one SourceItem goes through, one statement group at a time:   *)
(* the copy, the binding of the fields, the sanitizing, the write.  resp   *)
(* records the phases in the order they are run.                           *)
(***************************************************************************)
OrderInputs == { x \in BindInputs : x.present \in {Fields, {"link"}} }

OrderInit ==
    /\ pc = "copy"
    /\ arg \in OrderInputs
    /\ LET b == Build(<<>>, IF arg.variant = "aio" THEN PartialCard(arg.present)
                            ELSE PartialUnit(arg.present))
       IN  heap = b.h /\ soup = b.id
    /\ ret = 0
    /\ resp = <<>>
    /\ NoRun

\* block = copy.deepcopy(template_result) in render_serp, card =
\* copy.deepcopy(template_card) in _build_card_from_template; the next
\* statement is fill_one_result's first, or _sanitize_card(card)
CopyUnit ==
    /\ pc = "copy"
    /\ LET block == IF arg.variant = "aio" THEN CloneCard(heap, soup)
                    ELSE CloneUnit(heap, soup)
       IN  heap' = block.h /\ ret' = block.id
    /\ pc' = IF arg.variant = "aio" THEN "sanitize" ELSE "bind_fields"
    /\ UNCHANGED <<arg, soup, resp, runVars>>

\* the fields are bound: fill_one_result up to its sanitize(result), or the
\* statements of _build_card_from_template that follow _sanitize_card(card)
BindFields ==
    /\ pc = "bind_fields"
    /\ heap' = IF arg.variant = "aio"
               THEN bind_card_fields(heap, ret, arg.url, arg.title, arg.snippet,
                                     arg.source_name)
               ELSE bind_fields(heap, ret, arg.url, arg.title, arg.snippet,
                                arg.source_name, arg.variant)
    /\ resp' = Append(resp, "bind")
    /\ pc' = IF arg.variant = "aio" THEN "serialize" ELSE "sanitize"
    /\ UNCHANGED <<arg, ret, soup, runVars>>

\* sanitize(result) at the end of fill_one_result, or _sanitize_card(card)
\* right after the copy
SanitizeClone ==
    /\ pc = "sanitize"
    /\ heap' = IF arg.variant = "aio" THEN sanitize(heap, ret)
               ELSE sanitize_result(heap, ret, arg.variant)
    /\ resp' = Append(resp, "sanitize")
    /\ pc' = CASE arg.variant = "aio" -> "bind_fields"
               [] arg.variant = "aio_as_serp" -> "disable_links"
               [] OTHER -> "serialize"
    /\ UNCHANGED <<arg, ret, soup, runVars>>

\* generate_aio_as_serp_html: _disable_all_links after the loop of render_serp
DisableCloneLinks ==
    /\ pc = "disable_links"
    /\ heap' = _disable_all_links(heap, ret)
    /\ resp' = Append(resp, "sanitize")
    /\ pc' = "serialize"
    /\ UNCHANGED <<arg, ret, soup, runVars>>

\* out_path.write_text(str(soup))
Serialize ==
    /\ pc = "serialize"
    /\ resp' = Append(resp, "serialize")
    /\ pc' = "serialized"
    /\ UNCHANGED <<arg, ret, docVars, runVars>>

OrderNext ==
    \/ CopyUnit
    \/ BindFields
    \/ SanitizeClone
    \/ DisableCloneLinks
    \/ Serialize

SpecOrder == OrderInit /\ [][OrderNext]_vars

\* the place of a phase in the required order
PhaseRank(phase) ==
    CASE phase = "bind" -> 1
      [] phase = "sanitize" -> 2
      [] OTHER -> 3

\* C17: Per-record step ordering.  For every bound SourceItem the fields are
\* bound into the clone before the clone is sanitized, and the sanitizing is
\* done before the document is serialized and written: no field of a clone
\* is bound after the clone has been sanitized.
C17_StepOrdering ==
    \A i, j \in 1..Len(resp) : i < j => PhaseRank(resp[i]) <= PhaseRank(resp[j])

\* a raw snippet text without its markers, label prefixes and pipes, its white
\* space runs collapsed: every other piece of the text once, in order
WithoutMarkers(s) ==
    LET bare == RemoveMarkers(s, 1, {S_Table_title, S_Table_content, S_header, S_row})
    IN  Join(<<" ">>, SplitWs(Replace(bare, <<"|">>, <<" ">>)))

\* C18: Snippet fallback.  For a raw snippet text that holds no row marker,
\* table_blob_to_googleish_snippet returns the text with the markers
\* Table_title:, Table_content:, header: and the pipes removed and its white
\* space runs collapsed to one space, every remaining piece of the text once,
\* truncated to the character budget as in the row case.
C18_SnippetFallback ==
    (pc = "snippet_done" /\ ~Contains(arg.s, S_row)) =>
        ret = Truncate(WithoutMarkers(arg.s), arg.max_chars)

\* what the node of field f shows in the unit r: the href of a link, the texts
\* of any other field
Shown(h, r, f) ==
    LET n == FieldNode(h, r, f)
    IN  IF f = "link" THEN <<GetAttr(h, n, "href", NoString)>> ELSE Texts(h, n)

\* the heap and the clone of a complete unit bound with the bind's values
CompleteBind ==
    LET b == Build(<<>>, PartialUnit(Fields))
        block == CloneUnit(b.h, b.id)
    IN  [h |-> fill_one_result(block.h, block.id, arg.url, arg.title, arg.snippet,
                               arg.source_name, arg.variant),
         id |-> block.id]

\* C19: Optional-node tolerance.  Whatever per-field nodes (link, title,
\* display-name span, breadcrumb line, citation line, snippet) a result unit
\* lacks, the bind returns its clone without raising, the clone has no node
\* for a field the unit has none for, and every field whose node is present
\* is bound as it is in a complete unit given the same values.
C19_OptionalNodeTolerance ==
    (pc = "bound" /\ arg.variant \in SerpVariants) =>
        /\ \A f \in Fields \ arg.present : FieldNode(heap, ret, f) = 0
        /\ \A f \in arg.present :
              /\ FieldNode(heap, ret, f) # 0
              /\ Shown(heap, ret, f) = Shown(CompleteBind.h, CompleteBind.id, f)

\* a unit without citation line and without link is bound: title, display
\* name and snippet show the values given
C19_Witness ==
    /\ pc = "bound"
    /\ arg.variant = "serp"
    /\ arg.present = {"title", "site", "crumb", "snippet"}
    /\ arg.title = <<"T","i">>
    /\ arg.source_name = <<"N"," ","n">>
    /\ arg.snippet = <<"S","n">>
    /\ Shown(heap, ret, "title") = <<arg.title>>
    /\ Shown(heap, ret, "site") = <<arg.source_name>>
    /\ Shown(heap, ret, "crumb") = <<arg.source_name>>
    /\ Shown(heap, ret, "snippet") = <<arg.snippet>>

(***************************************************************************)
(* The locator on results containers of every make-up.                     *)
(***************************************************************************)
MaxBlocks == 3

BlockKinds == {"decoy", "unit", "nested", "wrapped", "span", "spanned"}

\* a block of a results container
Block(kind) ==
    LET top == E("div", <<>>, {"yuRUbf"}, NoAttrs, <<T(<<"t">>)>>)
        unit == E("div", <<>>, {"MjjYud"}, NoAttrs, <<top>>)
    IN  CASE kind = "decoy" -> Decoy
          [] kind = "unit" -> unit
          [] kind = "nested" -> E("div", <<>>, {"MjjYud", "g"}, NoAttrs, <<Decoy, unit>>)
          [] kind = "wrapped" -> E("div", <<>>, {"g"}, NoAttrs, <<unit>>)
          [] kind = "span" -> E("span", <<>>, {"MjjYud"}, NoAttrs, <<top>>)
          [] OTHER -> E("div", <<>>, {"MjjYud"}, NoAttrs,
                        << E("span", <<>>, {"yuRUbf"}, NoAttrs, <<T(<<"t">>)>>) >>)

BlockRows == UNION { [1..n -> BlockKinds] : n \in 0..MaxBlocks }

\* rso is div#rso holding the blocks of arg; soup is rso
LocateInit ==
    /\ pc = "locate0"
    /\ arg \in BlockRows
    /\ LET b == Build(<<>>, E("div", S_rso, {}, NoAttrs, [i \in 1..Len(arg) |-> Block(arg[i])]))
       IN  heap = b.h /\ soup = b.id
    /\ ret = None
    /\ resp = None
    /\ NoRun

\* template_result = find_first_organic_result(rso)
LocateFirst ==
    /\ pc = "locate0"
    /\ ret' = find_first_organic_result(heap, soup)
    /\ pc' = "located"
    /\ UNCHANGED <<arg, resp, docVars, runVars>>

LocateNext == LocateFirst

SpecLocate == LocateInit /\ [][LocateNext]_vars

\* n comes before m in depth-first pre-order: n is an ancestor of m, or n lies
\* under an earlier child than m of some node
Precedes(h, n, m) ==
    /\ n # m
    /\ \/ m \in Subtree(h, n)
       \/ \E p \in 1..Len(h) : \E i, j \in 1..Len(h[p].kids) :
             /\ i < j
             /\ n \in Subtree(h, h[p].kids[i])
             /\ m \in Subtree(h, h[p].kids[j])

\* the div elements with class token MjjYud inside rso that have a descendant
\* div with class token yuRUbf
OrganicBlocks(h, rso) ==
    { n \in Subtree(h, rso) \ {rso} :
        /\ h[n].tag = "div"
        /\ "MjjYud" \in h[n].cls
        /\ \E d \in Subtree(h, n) \ {n} : h[d].tag = "div" /\ "yuRUbf" \in h[d].cls }

\* C20: Locator tie-break.  find_first_organic_result returns, of the div
\* elements with class token MjjYud inside the results container that have a
\* descendant div with class token yuRUbf, the one that precedes all others
\* in depth-first pre-order; when there is none it returns None and raises
\* nothing.
C20_LocatorTieBreak ==
    pc = "located" =>
        IF OrganicBlocks(heap, soup) = {}
        THEN ret = 0
        ELSE /\ ret \in OrganicBlocks(heap, soup)
             /\ \A m \in OrganicBlocks(heap, soup) \ {ret} : Precedes(heap, ret, m)

\* a decoy, then a block whose outer and inner div both match, then a plain
\* unit: the outer div of the second block is returned
C20_Witness ==
    /\ pc = "located"
    /\ arg = <<"decoy", "nested", "unit">>
    /\ Cardinality(OrganicBlocks(heap, soup)) = 3
    /\ ret = soup + 4
    /\ "g" \in heap[ret].cls

(***************************************************************************)
(* The results container of a written document.                            *)
(***************************************************************************)
\* the children the container has in the template that was loaded
TemplateEntries ==
    IF env.variant = "aio" THEN heap[loc.ul].kids
    ELSE LET b == Build(<<>>, FixPaths(Template, env.variant))
         IN  b.h[find_id(b.h, b.id, "div", S_rso)].kids

\* the markup of the entry of a SourceItem: a copy of the template unit bound
\* to the item (its links made inert by generate_aio_as_serp_html; inside a
\* new li.jydCyd in generate_aio_html)
EntryOf(row) ==
    LET df == loc.sources_df
        name == Cell(df, row, "source_name")
        source_name == IF name # <<>> THEN name ELSE Cell(df, row, "root_domain")
        url == Cell(df, row, "source_url")
        title == Cell(df, row, "source_title")
        snippet == Cell(df, row, "source_text")
        block == deepcopy(heap, Unit)
        bound == IF env.variant = "aio"
                 THEN FillCard(block.h, block.id, url, title, snippet, source_name)
                 ELSE fill_one_result(block.h, block.id, url, title, snippet, source_name,
                                      env.variant)
        final == IF env.variant = "aio_as_serp" THEN _disable_all_links(bound, block.id)
                 ELSE bound
    IN  IF env.variant = "aio"
        THEN E("li", <<>>, {"jydCyd"}, NoAttrs, <<Markup(final, block.id)>>)
        ELSE Markup(final, block.id)

\* C21: Clear-before-repopulate.  When the document of a record is written,
\* the children of the results container (div#rso; the sources list in the
\* AI-answer generator) are exactly the clones bound to the selected
\* SourceItems: one per selected item, in the sorted order of the items, each
\* a node of its own; no child that the container had in the template
\* remains, whatever the template held.
C21_ClearBeforeRepopulate ==
    pc = "written" =>
        LET entries == Entries(heap, soup)
            rows == loc.sources_df.rows
        IN  /\ SortedByRank(loc.sorted, loc.group)
            /\ rows = SubSeq(loc.sorted.rows, 1, Len(rows))
            /\ Len(entries) = Len(rows)
            /\ \A i \in 1..Len(rows) : Markup(heap, entries[i]) = EntryOf(rows[i])
            /\ \A i, j \in 1..Len(entries) : i # j => entries[i] # entries[j]
            /\ SeqToSet(entries) \cap SeqToSet(TemplateEntries) = {}

\* a template whose container holds a decoy and a wrapped unit is written
\* with the clones of two SourceItems of different ranks
C21_Witness ==
    /\ pc = "written"
    /\ env.variant = "serp"
    /\ env.tmpl.shape = "wrapped"
    /\ Len(TemplateEntries) = 2
    /\ Len(Entries(heap, soup)) = 2
    /\ ~RankLe(loc.group, loc.group.rows[1], loc.group.rows[2])

(***************************************************************************)
(* The Path Rewriter run on a template that it has already rewritten.      *)
(***************************************************************************)
\* raw = fix_asset_paths(raw), or _fix_asset_paths(raw_html), on the text that
\* the first run returned; resp is the text it returns
FixAssetPathsAgain ==
    /\ pc = "paths_done"
    /\ resp' = IF arg.which = "aio" THEN _fix_asset_paths(ret) ELSE fix_asset_paths(ret)
    /\ pc' = "paths_twice"
    /\ UNCHANGED <<arg, ret, docVars, runVars>>

PathsTwiceNext == FixAssetPaths \/ FixAssetPathsAio \/ FixAssetPathsAgain

SpecPathsTwice == PathsInit /\ [][PathsTwiceNext]_vars

\* C22: The Path Rewriter is a fixed point on its own output.  Run on a
\* template that it has already rewritten, fix_asset_paths (or
\* _fix_asset_paths) returns the template unchanged: a reference that points
\* into html_asset_files/ is left exactly as it is.
C22_RewriteFixedPoint ==
    pc = "paths_twice" => resp = ret

====
